---- MODULE Spec2Model ----
(***************************************************************************)
(* Canonical observation encoder of the Hanabi learning environment        *)
(* (src/hanabi_lib/canonical_encoders.cc).                                 *)
(*                                                                         *)
(* The encoder is a pure function of a HanabiGame and a HanabiObservation. *)
(* One call of CanonicalObservationEncoder::Encode is modelled as a run:   *)
(* Init draws the game, the observation and show_own_cards, and one action *)
(* per section encoder advances the cursor over the output vector.         *)
(*                                                                         *)
(* Conventions.  The C++ vectors are 0-based; a TLA+ sequence holds the    *)
(* element of C++ index i at position i + 1.  The output vector holds      *)
(* floats: `encoding` holds the numerator and `scale` the denominator of   *)
(* every entry (all entries but the normalised beliefs have scale 1).      *)
(* assert() is modelled as compiled in: a failed assertion ends the call.  *)
(***************************************************************************)
EXTENDS Integers, Sequences, FiniteSets, TLC

VARIABLES game, obs, show_own_cards, pc, encoding, scale, offset, lens, why

vars == <<game, obs, show_own_cards, pc, encoding, scale, offset, lens, why>>

----------------------------------------------------------------------------
(* Bounds of the model                                                     *)

MaxColors == 2
MaxRanks == 3
MaxPlayers == 2
MaxHandSize == 3
MaxInformationTokens == 2
MaxLifeTokens == 1
MaxDiscards == 2
MaxDeals == 1

----------------------------------------------------------------------------
(* HanabiGame, HanabiCard, HanabiHand, HanabiMove, HanabiHistoryItem       *)

\* HanabiMove::Type
kInvalid == "kInvalid"
kPlay == "kPlay"
kDiscard == "kDiscard"
kRevealColor == "kRevealColor"
kRevealRank == "kRevealRank"
kDeal == "kDeal"

\* HanabiGame::AgentObservationType values the encoder distinguishes
kMinimal == "kMinimal"
kCardKnowledge == "kCardKnowledge"

\* HanabiGame::NumberCardInstances: 3 copies of the lowest rank, 1 of the
\* highest, 2 of every other rank, the same for every color.
NumberCardInstances(g, color, rank) ==
  IF color < 0 \/ color >= g.num_colors \/ rank < 0 \/ rank >= g.num_ranks
    THEN 0
    ELSE IF rank = 0 THEN 3
    ELSE IF rank = g.num_ranks - 1 THEN 1
    ELSE 2

RECURSIVE SumInstances(_, _, _)
SumInstances(g, color, rank) ==
  IF color >= g.num_colors THEN 0
  ELSE IF rank >= g.num_ranks THEN SumInstances(g, color + 1, 0)
  ELSE NumberCardInstances(g, color, rank) + SumInstances(g, color, rank + 1)

\* HanabiGame::MaxDeckSize: the number of cards of the full deck.
MaxDeckSize(g) == SumInstances(g, 0, 0)

\* HanabiCard::IsValid
IsValid(card) == card.color >= 0 /\ card.rank >= 0

\* HanabiHand::CardKnowledge::ColorHinted / RankHinted
ColorHinted(k) == k.color >= 0
RankHinted(k) == k.rank >= 0

----------------------------------------------------------------------------
(* Layout calculator                                                       *)

RECURSIVE Product(_, _)
Product(shape, k) ==
  IF k > Len(shape) THEN 1 ELSE shape[k] * Product(shape, k + 1)

FlatLength(shape) == Product(shape, 1)

BitsPerCard(g) == g.num_colors * g.num_ranks

\* Mutation of CardIndex: rank-major instead of color-major.
CardIndexRankMajor(color, rank, num_ranks) == rank * num_ranks + color

CardIndex(color, rank, num_ranks) == color * num_ranks + rank

HandsSectionLength(g) ==
  g.num_players * g.hand_size * BitsPerCard(g) + g.num_players

BoardSectionLength(g) ==
  MaxDeckSize(g) - g.num_players * g.hand_size
    + g.num_colors * g.num_ranks
    + g.max_information_tokens
    + g.max_life_tokens

DiscardSectionLength(g) == MaxDeckSize(g)

LastActionSectionLength(g) ==
  g.num_players + 4 + g.num_players + g.num_colors + g.num_ranks
    + g.hand_size + g.hand_size + BitsPerCard(g) + 2

CardKnowledgeSectionLength(g) ==
  g.num_players * g.hand_size * (BitsPerCard(g) + g.num_colors + g.num_ranks)

\* Mutation of Shape: the card knowledge section is counted in every
\* observation type.
ShapeAlwaysKnowledge(g) ==
  << HandsSectionLength(g) + BoardSectionLength(g) + DiscardSectionLength(g)
       + LastActionSectionLength(g) + CardKnowledgeSectionLength(g) >>

Shape(g) ==
  << HandsSectionLength(g) + BoardSectionLength(g) + DiscardSectionLength(g)
       + LastActionSectionLength(g)
       + (IF g.observation_type = kMinimal
            THEN 0 ELSE CardKnowledgeSectionLength(g)) >>

----------------------------------------------------------------------------
(* Writes into the output vector                                           *)

\* What a section encoder hands back: how it ended, the vector, the
\* denominators and the cursor.
Result(w, enc, sc, off) ==
  [why |-> w, encoding |-> enc, scale |-> sc, offset |-> off]

Ok(r) == r.why = "ok"

InRange(enc, i) == i >= 0 /\ i < Len(enc)

\* (*encoding)[i] = 1
Put(enc, i) == [enc EXCEPT ![i + 1] = 1]

\* for (int i = 0; i < n; ++i) (*encoding)[offset + i] = 1;
RECURSIVE Thermometer(_, _, _, _)
Thermometer(r, off, i, n) ==
  IF ~Ok(r) \/ i >= n THEN r
  ELSE IF ~InRange(r.encoding, off + i)
    THEN Result("undefined", r.encoding, r.scale, r.offset)
    ELSE Thermometer(Result("ok", Put(r.encoding, off + i), r.scale, r.offset),
                     off, i + 1, n)

\* (*encoding)[i] = 1 on a cursor record: an index outside the vector is
\* undefined behaviour.
Set1(r, i) ==
  IF ~Ok(r) THEN r
  ELSE IF ~InRange(r.encoding, i)
    THEN Result("undefined", r.encoding, r.scale, r.offset)
    ELSE Result("ok", Put(r.encoding, i), r.scale, r.offset)

\* (*encoding).at(i) = 1: an index outside the vector throws.
SetAt1(r, i) ==
  IF ~Ok(r) THEN r
  ELSE IF ~InRange(r.encoding, i)
    THEN Result("out_of_range", r.encoding, r.scale, r.offset)
    ELSE Result("ok", Put(r.encoding, i), r.scale, r.offset)

\* offset += n
Advance(r, n) ==
  IF ~Ok(r) THEN r ELSE Result("ok", r.encoding, r.scale, r.offset + n)

\* assert(cond)
Require(r, cond) ==
  IF ~Ok(r) \/ cond THEN r
  ELSE Result("assert", r.encoding, r.scale, r.offset)

\* assert(offset - start_offset == <section length>): the cursor of r
\* against the static length of the section.
RequireLength(r, start_offset, length) ==
  IF ~Ok(r) \/ r.offset - start_offset = length THEN r
  ELSE Result("length", r.encoding, r.scale, r.offset)

\* (*encoding)[offset + rel] = 1 at the cursor of r
SetRel(r, rel) == IF ~Ok(r) THEN r ELSE Set1(r, r.offset + rel)

\* Mutation of SetRelIf: the entry is set whatever the condition.
SetRelAlways(cond, r, rel) == SetRel(r, rel)

\* if (cond) (*encoding)[offset + rel] = 1;
SetRelIf(cond, r, rel) == IF cond THEN SetRel(r, rel) ELSE r

\* (*encoding).at(offset + rel) = 1 at the cursor of r
SetRelAt(r, rel) == IF ~Ok(r) THEN r ELSE SetAt1(r, r.offset + rel)

\* for (int i = 0; i < n; ++i) (*encoding)[offset + i] = 1; at the cursor
ThermometerRel(r, n) == IF ~Ok(r) THEN r ELSE Thermometer(r, r.offset, 0, n)

----------------------------------------------------------------------------
(* EncodeHands                                                             *)

\* The body of the loop over the cards of one hand.
\* Mutation of HandsCard: no assertion on the validity of the card; an
\* invalid card sets nothing.
HandsCardUnchecked(g, r, card, player, show) ==
  Advance(IF (player = 0 /\ ~show) \/ ~IsValid(card)
            THEN r
            ELSE SetRelAt(r, CardIndex(card.color, card.rank, g.num_ranks)),
          BitsPerCard(g))

HandsCard(g, r, card, player, show) ==
  LET r1 == Require(Require(r, card.color < g.num_colors),
                    card.rank < g.num_ranks)
      at == CardIndex(card.color, card.rank, g.num_ranks)
  IN  Advance(IF player = 0 /\ ~show
                THEN Require(r1, ~IsValid(card))
                ELSE SetRelAt(Require(r1, IsValid(card)), at),
              BitsPerCard(g))

RECURSIVE HandsCards(_, _, _, _, _, _)
HandsCards(g, r, cards, k, player, show) ==
  IF ~Ok(r) \/ k > Len(cards) THEN r
  ELSE HandsCards(g, HandsCard(g, r, cards[k], player, show),
                  cards, k + 1, player, show)

\* Mutation of HandsPlayer: the slots of the absent cards are not skipped.
HandsPlayerNoSkip(g, r, hands, player, show) ==
  HandsCards(g, r, hands[player + 1].cards, 1, player, show)

\* One iteration of the loop over the players: the cards, then the skip
\* over the slots of the absent cards.
HandsPlayer(g, r, hands, player, show) ==
  LET cards == hands[player + 1].cards
      num_cards == Len(cards)
      r1 == HandsCards(g, r, cards, 1, player, show)
  IN  IF num_cards < g.hand_size
        THEN Advance(r1, (g.hand_size - num_cards) * BitsPerCard(g))
        ELSE r1

RECURSIVE HandsPlayers(_, _, _, _, _)
HandsPlayers(g, r, hands, player, show) ==
  IF ~Ok(r) \/ player >= g.num_players THEN r
  ELSE HandsPlayers(g, HandsPlayer(g, r, hands, player, show),
                    hands, player + 1, show)

\* Mutation of HandsMissing: the bit is set for a hand that holds no card.
HandsMissingEmpty(g, r, hands, player) ==
  LET bits == {q \in 0..(g.num_players - 1) : Len(hands[q + 1].cards) = 0}
  IN  IF ~Ok(r) THEN r
      ELSE Result(r.why,
                  [i \in 1..Len(r.encoding) |->
                     IF (i - 1 - r.offset) \in bits THEN 1 ELSE r.encoding[i]],
                  r.scale, r.offset)

\* For each player, set a bit if their hand is missing a card.
RECURSIVE HandsMissing(_, _, _, _)
HandsMissing(g, r, hands, player) ==
  IF ~Ok(r) \/ player >= g.num_players THEN r
  ELSE HandsMissing(g,
         SetRelIf(Len(hands[player + 1].cards) < g.hand_size, r, player),
         hands, player + 1)

\* EncodeHands(game, obs, start_offset, encoding, show_own_cards): the
\* cursor of the result is the number of entries written.
EncodeHands(g, o, start_offset, enc, sc, show) ==
  LET r0 == Require(Result("ok", enc, sc, start_offset),
                    Len(o.hands) = g.num_players)
      r1 == HandsPlayers(g, r0, o.hands, 0, show)
      r2 == Advance(HandsMissing(g, r1, o.hands, 0), g.num_players)
      r3 == RequireLength(r2, start_offset, HandsSectionLength(g))
  IN  Result(r3.why, r3.encoding, r3.scale, r3.offset - start_offset)

----------------------------------------------------------------------------
(* EncodeBoard                                                             *)

RECURSIVE BoardFireworks(_, _, _, _)
BoardFireworks(g, r, fireworks, c) ==
  IF ~Ok(r) \/ c >= g.num_colors THEN r
  ELSE BoardFireworks(g,
         Advance(SetRelIf(fireworks[c + 1] > 0, r, fireworks[c + 1] - 1),
                 g.num_ranks),
         fireworks, c + 1)

\* Mutation of EncodeBoard: the token fields are one-hot at the number of
\* tokens less one instead of thermometers.
EncodeBoardOneHotTokens(g, o, start_offset, enc, sc) ==
  LET r0 == Result("ok", enc, sc, start_offset)
      r1 == Advance(ThermometerRel(r0, o.deck_size),
                    MaxDeckSize(g) - g.hand_size * g.num_players)
      r2 == BoardFireworks(g, r1, o.fireworks, 0)
      r3 == Require(Require(r2, o.information_tokens >= 0),
                    o.information_tokens <= g.max_information_tokens)
      r4 == Advance(SetRelIf(o.information_tokens > 0, r3,
                             o.information_tokens - 1),
                    g.max_information_tokens)
      r5 == Require(Require(r4, o.life_tokens >= 0),
                    o.life_tokens <= g.max_life_tokens)
      r6 == Advance(SetRelIf(o.life_tokens > 0, r5, o.life_tokens - 1),
                    g.max_life_tokens)
      r7 == RequireLength(r6, start_offset, BoardSectionLength(g))
  IN  Result(r7.why, r7.encoding, r7.scale, r7.offset - start_offset)

EncodeBoard(g, o, start_offset, enc, sc) ==
  LET r0 == Result("ok", enc, sc, start_offset)
      \* the deck size
      r1 == Advance(ThermometerRel(r0, o.deck_size),
                    MaxDeckSize(g) - g.hand_size * g.num_players)
      \* fireworks
      r2 == BoardFireworks(g, r1, o.fireworks, 0)
      \* info tokens
      r3 == Require(Require(r2, o.information_tokens >= 0),
                    o.information_tokens <= g.max_information_tokens)
      r4 == Advance(ThermometerRel(r3, o.information_tokens),
                    g.max_information_tokens)
      \* life tokens
      r5 == Require(Require(r4, o.life_tokens >= 0),
                    o.life_tokens <= g.max_life_tokens)
      r6 == Advance(ThermometerRel(r5, o.life_tokens),
                    g.max_life_tokens)
      r7 == RequireLength(r6, start_offset, BoardSectionLength(g))
  IN  Result(r7.why, r7.encoding, r7.scale, r7.offset - start_offset)

----------------------------------------------------------------------------
(* EncodeDiscards                                                          *)

\* discard_counts[c * num_ranks + r] after the loop over the discard pile
DiscardCount(pile, color, rank) ==
  Cardinality({k \in 1..Len(pile) :
                 pile[k].color = color /\ pile[k].rank = rank})

RECURSIVE DiscardsFields(_, _, _, _, _)
DiscardsFields(g, r, pile, c, rk) ==
  IF ~Ok(r) \/ c >= g.num_colors THEN r
  ELSE IF rk >= g.num_ranks THEN DiscardsFields(g, r, pile, c + 1, 0)
  ELSE DiscardsFields(g,
         Advance(ThermometerRel(r, DiscardCount(pile, c, rk)),
                 NumberCardInstances(g, c, rk)),
         pile, c, rk + 1)

EncodeDiscards(g, o, start_offset, enc, sc) ==
  LET r0 == Result("ok", enc, sc, start_offset)
      r1 == DiscardsFields(g, r0, o.discard_pile, 0, 0)
      r2 == RequireLength(r1, start_offset, DiscardSectionLength(g))
  IN  Result(r2.why, r2.encoding, r2.scale, r2.offset - start_offset)

----------------------------------------------------------------------------
(* EncodeLastAction_                                                       *)

\* GetLastNonDealMove: std::find_if from the front of past_moves; 0 stands
\* for nullptr, k > 0 for the item at C++ index k - 1.
RECURSIVE FindNonDeal(_, _)
FindNonDeal(past_moves, k) ==
  IF k > Len(past_moves) THEN 0
  ELSE IF past_moves[k].move.move_type # kDeal THEN k
  ELSE FindNonDeal(past_moves, k + 1)

\* Mutation of GetLastNonDealMove: the oldest non-deal move of the history.
GetLastNonDealMoveOldest(past_moves) ==
  LET found == {k \in 1..Len(past_moves) : past_moves[k].move.move_type # kDeal}
  IN  IF found = {} THEN 0
      ELSE CHOOSE k \in found : \A j \in found : j <= k

GetLastNonDealMove(past_moves) == FindNonDeal(past_moves, 1)

RECURSIVE Pow2(_)
Pow2(i) == IF i = 0 THEN 1 ELSE 2 * Pow2(i - 1)

\* (reveal_bitmask & mask) > 0 with mask = 1 << i
BitSet(bitmask, i) == (bitmask \div Pow2(i)) % 2 = 1

\* Mutation of LastActionOutcome: only the lowest bit of the bitmask is
\* looked at.
LastActionOutcomeLowBit(g, r, bitmask, i) == SetRelIf(BitSet(bitmask, 0), r, 0)

\* for (int i = 0, mask = 1; i < hand_size; ++i, mask <<= 1)
RECURSIVE LastActionOutcome(_, _, _, _)
LastActionOutcome(g, r, bitmask, i) ==
  IF ~Ok(r) \/ i >= g.hand_size THEN r
  ELSE LastActionOutcome(g, SetRelIf(BitSet(bitmask, i), r, i),
                         bitmask, i + 1)

\* The switch over the move type.
LastActionMoveType(r, t) ==
  IF ~Ok(r) THEN r
  ELSE IF t = kPlay THEN SetRel(r, 0)
  ELSE IF t = kDiscard THEN SetRel(r, 1)
  ELSE IF t = kRevealColor THEN SetRel(r, 2)
  ELSE IF t = kRevealRank THEN SetRel(r, 3)
  ELSE Result("abort", r.encoding, r.scale, r.offset)

\* The else branch of EncodeLastAction_: the fields of last_move, each
\* written at the cursor and followed by the advance over its width.
LastActionFields(g, r, last_move) ==
  LET t == last_move.move.move_type
      hint == t = kRevealColor \/ t = kRevealRank
      card == t = kPlay \/ t = kDiscard
      \* player_id
      r1 == Advance(SetRel(r, last_move.player), g.num_players)
      \* move type
      r2 == Advance(LastActionMoveType(r1, t), 4)
      \* target player (if hint action)
      r3 == Advance(SetRelIf(hint, r2,
                             (last_move.player + last_move.move.target_offset)
                               % g.num_players),
                    g.num_players)
      \* color (if hint action)
      r4 == Advance(SetRelIf(t = kRevealColor, r3, last_move.move.color),
                    g.num_colors)
      \* rank (if hint action)
      r5 == Advance(SetRelIf(t = kRevealRank, r4, last_move.move.rank),
                    g.num_ranks)
      \* outcome (if hinted action)
      r6 == Advance(LastActionOutcome(g, r5,
                                      IF hint THEN last_move.reveal_bitmask
                                              ELSE 0, 0),
                    g.hand_size)
      \* position (if play or discard action)
      r7 == Advance(SetRelIf(card, r6, last_move.move.card_index),
                    g.hand_size)
      \* card (if play or discard action)
      r8 == Advance(SetRelIf(card,
                             Require(Require(r7, card => last_move.color >= 0),
                                     card => last_move.rank >= 0),
                             CardIndex(last_move.color, last_move.rank,
                                       g.num_ranks)),
                    BitsPerCard(g))
      \* was successful and/or added information token (if play action)
      r9 == SetRelIf(t = kPlay /\ last_move.information_token,
                     SetRelIf(t = kPlay /\ last_move.scored, r8, 0), 1)
  IN  Advance(r9, 2)

EncodeLastAction_(g, o, start_offset, enc, sc) ==
  LET r0 == Result("ok", enc, sc, start_offset)
      last_move == GetLastNonDealMove(o.last_moves)
      r1 == IF last_move = 0
              THEN Advance(r0, LastActionSectionLength(g))
              ELSE LastActionFields(g, r0, o.last_moves[last_move])
      r2 == RequireLength(r1, start_offset, LastActionSectionLength(g))
  IN  Result(r2.why, r2.encoding, r2.scale, r2.offset - start_offset)

----------------------------------------------------------------------------
(* EncodeCardKnowledge                                                     *)

\* Add bits for plausible card: the two nested loops over color and rank.
RECURSIVE KnowledgeGrid(_, _, _, _, _)
KnowledgeGrid(g, r, card_knowledge, color, rank) ==
  IF ~Ok(r) \/ color >= g.num_colors THEN r
  ELSE IF rank >= g.num_ranks
    THEN KnowledgeGrid(g, r, card_knowledge, color + 1, 0)
  ELSE KnowledgeGrid(g,
         SetRelIf(card_knowledge.color_plausible[color + 1]
                    /\ card_knowledge.rank_plausible[rank + 1],
                  r, CardIndex(color, rank, g.num_ranks)),
         card_knowledge, color, rank + 1)

\* Mutation of KnowledgeCard: the grid holds every card of a plausible
\* color, whatever the rank.
KnowledgeCardAnyRank(g, r, card_knowledge) ==
  LET all == [card_knowledge EXCEPT
                !.rank_plausible = [x \in 1..g.num_ranks |-> TRUE]]
      r1 == Advance(KnowledgeGrid(g, r, all, 0, 0), BitsPerCard(g))
      r2 == Advance(SetRelIf(ColorHinted(card_knowledge), r1,
                             card_knowledge.color),
                    g.num_colors)
  IN  Advance(SetRelIf(RankHinted(card_knowledge), r2, card_knowledge.rank),
              g.num_ranks)

\* The body of the loop over the knowledge entries of one hand.
KnowledgeCard(g, r, card_knowledge) ==
  LET r1 == Advance(KnowledgeGrid(g, r, card_knowledge, 0, 0), BitsPerCard(g))
      r2 == Advance(SetRelIf(ColorHinted(card_knowledge), r1,
                             card_knowledge.color),
                    g.num_colors)
  IN  Advance(SetRelIf(RankHinted(card_knowledge), r2, card_knowledge.rank),
              g.num_ranks)

RECURSIVE KnowledgeCards(_, _, _, _)
KnowledgeCards(g, r, knowledge, k) ==
  IF ~Ok(r) \/ k > Len(knowledge) THEN r
  ELSE KnowledgeCards(g, KnowledgeCard(g, r, knowledge[k]), knowledge, k + 1)

KnowledgePlayer(g, r, hands, player) ==
  LET knowledge == hands[player + 1].knowledge
      num_cards == Len(knowledge)
      r1 == KnowledgeCards(g, r, knowledge, 1)
  IN  IF num_cards < g.hand_size
        THEN Advance(r1, (g.hand_size - num_cards)
                           * (BitsPerCard(g) + g.num_colors + g.num_ranks))
        ELSE r1

RECURSIVE KnowledgePlayers(_, _, _, _)
KnowledgePlayers(g, r, hands, player) ==
  IF ~Ok(r) \/ player >= g.num_players THEN r
  ELSE KnowledgePlayers(g, KnowledgePlayer(g, r, hands, player),
                        hands, player + 1)

EncodeCardKnowledge(g, o, start_offset, enc, sc) ==
  LET r0 == Require(Result("ok", enc, sc, start_offset),
                    Len(o.hands) = g.num_players)
      r1 == KnowledgePlayers(g, r0, o.hands, 0)
      r2 == RequireLength(r1, start_offset, CardKnowledgeSectionLength(g))
  IN  Result(r2.why, r2.encoding, r2.scale, r2.offset - start_offset)

----------------------------------------------------------------------------
(* ComputeCardCount                                                        *)

RECURSIVE SumSeq(_, _)
SumSeq(q, k) == IF k > Len(q) THEN 0 ELSE q[k] + SumSeq(q, k + 1)

\* card_count after the three loops: the full deck, less the discard pile,
\* less the cards on the fireworks.
CardCount(g, o) ==
  [i \in 1..(g.num_colors * g.num_ranks) |->
     LET color == (i - 1) \div g.num_ranks
         rank == (i - 1) % g.num_ranks
     IN  NumberCardInstances(g, color, rank)
           - DiscardCount(o.discard_pile, color, rank)
           - (IF rank < o.fireworks[color + 1] THEN 1 ELSE 0)]

\* total_count after the three loops
TotalCount(g, o) ==
  MaxDeckSize(g) - Len(o.discard_pile)
    - SumSeq([c \in 1..g.num_colors |->
                IF o.fireworks[c] > 0 THEN o.fireworks[c] ELSE 0], 1)

\* total_hand_size of the sanity check
TotalHandSize(o) == SumSeq([p \in 1..Len(o.hands) |-> Len(o.hands[p].cards)], 1)

\* Mutation of ComputeCardCount: no sanity check.
ComputeCardCountUnchecked(g, o) == [why |-> "ok", card_count |-> CardCount(g, o)]

\* ComputeCardCount: the counts, or the failed sanity check.
ComputeCardCount(g, o) ==
  [why |-> IF TotalCount(g, o) # o.deck_size + TotalHandSize(o)
             THEN "assert" ELSE "ok",
   card_count |-> CardCount(g, o)]

----------------------------------------------------------------------------
(* EncodeV0Belief_                                                         *)

\* The offsets at which the loops over player_id and card_idx find the
\* grids of the held cards.
V0Slots(g, hands, start_offset, len, per_card_offset) ==
  UNION {{start_offset + (len \div g.num_players) * player_id
            + card_idx * per_card_offset :
            card_idx \in 0..(Len(hands[player_id + 1].cards) - 1)} :
           player_id \in 0..(g.num_players - 1)}

\* total of the slot at `base`: the sum of grid entry times card count.
V0Total(g, enc, card_count, base) ==
  SumSeq([i \in 1..(g.num_colors * g.num_ranks) |->
            enc[base + i] * card_count[i]], 1)

\* The slot whose grid holds the entry at `at`, or -1: the slot of player
\* rel \div player_offset and card (rel % player_offset) \div
\* per_card_offset, if that card is held and the entry is in its grid.
\* Mutation of V0SlotOf: the grid of a slot that holds no card is taken
\* for the grid of a held card.
V0SlotOfAnyHand(g, hands, start_offset, len, per_card_offset, at) ==
  LET rel == at - start_offset
      player_offset == len \div g.num_players
      player_id == rel \div player_offset
      i == (rel % player_offset) % per_card_offset
  IN  IF rel >= 0 /\ rel < len /\ player_id < g.num_players
           /\ i < g.num_colors * g.num_ranks
        THEN at - i
        ELSE -1

V0SlotOf(g, hands, start_offset, len, per_card_offset, at) ==
  LET rel == at - start_offset
      player_offset == len \div g.num_players
      player_id == rel \div player_offset
      card_idx == (rel % player_offset) \div per_card_offset
      i == (rel % player_offset) % per_card_offset
  IN  IF rel >= 0 /\ rel < len /\ player_id < g.num_players
           /\ card_idx < Len(hands[player_id + 1].cards)
           /\ i < g.num_colors * g.num_ranks
        THEN at - i
        ELSE -1

\* The loops over the held cards: every grid entry is multiplied by the
\* count of its card and divided by the total of its slot.  The grids of
\* two slots do not overlap, so each entry is rewritten once.
V0Normalise(g, r, hands, card_count, start_offset, len, per_card_offset) ==
  LET n == g.num_colors * g.num_ranks
      slots == V0Slots(g, hands, start_offset, len, per_card_offset)
      r1 == Require(r, \A base \in slots : base + n - 1 - start_offset < len)
      r2 == IF Ok(r1) /\ \E base \in slots : ~InRange(r.encoding, base + n - 1)
              THEN Result("undefined", r.encoding, r.scale, r.offset)
              ELSE r1
      r3 == Require(r2, \A base \in slots :
                          V0Total(g, r.encoding, card_count, base) > 0)
  IN  IF ~Ok(r3) THEN r3
      ELSE Result("ok",
             [j \in 1..Len(r.encoding) |->
                LET base == V0SlotOf(g, hands, start_offset, len,
                                     per_card_offset, j - 1)
                IN  IF base < 0 THEN r.encoding[j]
                    ELSE r.encoding[j] * card_count[j - base]],
             [j \in 1..Len(r.scale) |->
                LET base == V0SlotOf(g, hands, start_offset, len,
                                     per_card_offset, j - 1)
                IN  IF base < 0 THEN r.scale[j]
                    ELSE r.scale[j] * V0Total(g, r.encoding, card_count, base)],
             r.offset)

EncodeV0Belief_(g, o, start_offset, enc, sc) ==
  LET cc == ComputeCardCount(g, o)
      k == EncodeCardKnowledge(g, o, start_offset, enc, sc)
      len == k.offset
      per_card_offset == (len \div g.hand_size) \div g.num_players
      r1 == Require(k, per_card_offset
                         = g.num_colors * g.num_ranks
                             + g.num_colors + g.num_ranks)
      r2 == V0Normalise(g, r1, o.hands, cc.card_count, start_offset, len,
                        per_card_offset)
  IN  IF cc.why # "ok" THEN Result(cc.why, enc, sc, 0)
      ELSE Result(r2.why, r2.encoding, r2.scale, len)

----------------------------------------------------------------------------
(* The games and observations the encoder is run on                        *)

Game(c, r, n, h, t) ==
  [num_colors |-> c, num_ranks |-> r, num_players |-> n, hand_size |-> h,
   max_information_tokens |-> MaxInformationTokens,
   max_life_tokens |-> MaxLifeTokens, observation_type |-> t]

ObservationTypes == {kMinimal, kCardKnowledge}

\* Every game within the bounds whose deck can fill every hand.
Configs ==
  {g \in {Game(c, r, n, h, t) : c \in 1..MaxColors, r \in 1..MaxRanks,
                                n \in 2..MaxPlayers, h \in 1..MaxHandSize,
                                t \in ObservationTypes} :
     MaxDeckSize(g) >= g.num_players * g.hand_size}

\* The largest game within the bounds.
RefGame(t) == Game(MaxColors, MaxRanks, MaxPlayers, MaxHandSize, t)

Card(c, r) == [color |-> c, rank |-> r]

\* A card the observer cannot see (HanabiCard(), color and rank -1).
InvalidCard == Card(-1, -1)

ValidCards(g) ==
  {Card(c, r) : c \in 0..(g.num_colors - 1), r \in 0..(g.num_ranks - 1)}

\* The knowledge about a card nothing was hinted about.
NoKnowledge(g) ==
  [color_plausible |-> [c \in 1..g.num_colors |-> TRUE],
   rank_plausible |-> [r \in 1..g.num_ranks |-> TRUE],
   color |-> -1, rank |-> -1]

Hand(g, cards, num_knowledge) ==
  [cards |-> cards, knowledge |-> [k \in 1..num_knowledge |-> NoKnowledge(g)]]

\* The card dealt to slot k of player p: the observer (player 0) sees its
\* own cards only when they are shown.
DealtCard(g, show, p, k) ==
  IF p = 0 /\ ~show THEN InvalidCard
  ELSE Card((p + k) % g.num_colors, (2 * p + k) % g.num_ranks)

\* Hands of occ[p + 1] cards for player p.
DealtHands(g, show, occ, all_knowledge) ==
  [q \in 1..g.num_players |->
     Hand(g, [k \in 1..occ[q] |-> DealtCard(g, show, q - 1, k - 1)],
          IF all_knowledge THEN g.hand_size ELSE occ[q])]

FullHands(g, show) ==
  DealtHands(g, show, [q \in 1..g.num_players |-> g.hand_size], FALSE)

\* The hands after d cards were dealt, player 0 first.
Min(a, b) == IF a < b THEN a ELSE b
Max(a, b) == IF a > b THEN a ELSE b

PartialHands(g, show, d) ==
  DealtHands(g, show,
             [q \in 1..g.num_players |->
                Min(g.hand_size, Max(0, d - (q - 1) * g.hand_size))],
             FALSE)

\* The full deck in color-major order, and its first m cards.
RECURSIVE DeckFrom(_, _, _, _)
DeckFrom(g, c, r, i) ==
  IF c >= g.num_colors THEN << >>
  ELSE IF r >= g.num_ranks THEN DeckFrom(g, c + 1, 0, 0)
  ELSE IF i >= NumberCardInstances(g, c, r) THEN DeckFrom(g, c, r + 1, 0)
  ELSE << Card(c, r) >> \o DeckFrom(g, c, r, i + 1)

FirstCards(g, m) == SubSeq(DeckFrom(g, 0, 0, 0), 1, m)

NoFireworks(g) == [c \in 1..g.num_colors |-> 0]

\* An observation; the deck holds every card that is not in a hand, in the
\* discard pile or on a firework, plus `extra` (0 in a synchronised game).
Observation(g, hands, pile, fireworks, info, life, moves, extra) ==
  [hands |-> hands, discard_pile |-> pile, fireworks |-> fireworks,
   deck_size |-> MaxDeckSize(g) - Len(pile) - SumSeq(fireworks, 1)
                   - SumSeq([q \in 1..Len(hands) |-> Len(hands[q].cards)], 1)
                   + extra,
   information_tokens |-> info, life_tokens |-> life, last_moves |-> moves]

Input(g, o, show) == [game |-> g, obs |-> o, show |-> show]

\* HanabiMove and HanabiHistoryItem; fields that do not apply are -1.
Move(t, target_offset, card_index, c, r) ==
  [move_type |-> t, target_offset |-> target_offset,
   card_index |-> card_index, color |-> c, rank |-> r]

HistoryItem(player, move, bitmask, c, r, scored, token) ==
  [player |-> player, move |-> move, reveal_bitmask |-> bitmask,
   color |-> c, rank |-> r, scored |-> scored, information_token |-> token]

DealItem == HistoryItem(-1, Move(kDeal, -1, -1, 0, 0), 0, -1, -1, FALSE, FALSE)

InvalidItem ==
  HistoryItem(0, Move(kInvalid, -1, -1, -1, -1), 0, -1, -1, FALSE, FALSE)

PlayItems(g) ==
  {HistoryItem(p, Move(kPlay, -1, k, -1, -1), 0, c, r, s, t) :
     p \in 0..(g.num_players - 1), k \in 0..(g.hand_size - 1),
     c \in 0..(g.num_colors - 1), r \in 0..(g.num_ranks - 1),
     s \in BOOLEAN, t \in BOOLEAN}

DiscardItems(g) ==
  {HistoryItem(p, Move(kDiscard, -1, k, -1, -1), 0, c, r, FALSE, t) :
     p \in 0..(g.num_players - 1), k \in 0..(g.hand_size - 1),
     c \in 0..(g.num_colors - 1), r \in 0..(g.num_ranks - 1),
     t \in BOOLEAN}

\* A play or discard whose card is not known to the history item.
UnknownCardItems(g) ==
  {HistoryItem(0, Move(t, -1, 0, -1, -1), 0, c, r, FALSE, FALSE) :
     t \in {kPlay, kDiscard}, c \in {-1, 0}, r \in {-1, 0}}
    \ {HistoryItem(0, Move(t, -1, 0, -1, -1), 0, 0, 0, FALSE, FALSE) :
         t \in {kPlay, kDiscard}}

RevealColorItems(g) ==
  {HistoryItem(p, Move(kRevealColor, to, -1, c, -1), m, -1, -1, FALSE, FALSE) :
     p \in 0..(g.num_players - 1), to \in 1..(g.num_players - 1),
     c \in 0..(g.num_colors - 1), m \in 0..(Pow2(g.hand_size) - 1)}

RevealRankItems(g) ==
  {HistoryItem(p, Move(kRevealRank, to, -1, -1, r), m, -1, -1, FALSE, FALSE) :
     p \in 0..(g.num_players - 1), to \in 1..(g.num_players - 1),
     r \in 0..(g.num_ranks - 1), m \in 0..(Pow2(g.hand_size) - 1)}

HistoryItems(g) ==
  PlayItems(g) \cup DiscardItems(g) \cup UnknownCardItems(g)
    \cup RevealColorItems(g) \cup RevealRankItems(g) \cup {InvalidItem}

\* An older move, behind the last one.
OlderItem(g) ==
  HistoryItem(g.num_players - 1,
              Move(kRevealRank, 1, -1, -1, g.num_ranks - 1),
              Pow2(g.hand_size) - 1, -1, -1, FALSE, FALSE)

Deals(d) == [k \in 1..d |-> DealItem]

\* One move of each type, by the observer.
RecentItems(g) ==
  {HistoryItem(0, Move(kPlay, -1, 0, -1, -1), 0, 0, 0, TRUE, FALSE),
   HistoryItem(0, Move(kDiscard, -1, 0, -1, -1), 0, 0, 0, FALSE, TRUE),
   HistoryItem(0, Move(kRevealColor, 1, -1, 0, -1), 1, -1, -1, FALSE, FALSE),
   HistoryItem(0, Move(kRevealRank, 1, -1, -1, 0), 1, -1, -1, FALSE, FALSE),
   InvalidItem}

\* The move histories, most recent move first: deals only; every move
\* alone; a move of each type behind some deals, with or without older
\* moves behind it.
Histories(g) ==
  {Deals(d) : d \in 0..MaxDeals}
    \cup {<< item >> : item \in HistoryItems(g)}
    \cup {Deals(d) \o << item >> \o tail :
            d \in 0..MaxDeals, item \in RecentItems(g),
            tail \in {<< >>, << OlderItem(g), DealItem >>}}

\* Discard piles of at most MaxDiscards cards, none more often than the
\* deck holds it.
RECURSIVE Piles(_, _)
Piles(g, n) ==
  IF n = 0 THEN {<< >>}
  ELSE LET shorter == Piles(g, n - 1)
       IN  shorter \cup
             {Append(q, c) : q \in {x \in shorter : Len(x) = n - 1},
                             c \in ValidCards(g)}

DiscardPiles(g) ==
  {q \in Piles(g, MaxDiscards) :
     \A c \in ValidCards(g) :
       DiscardCount(q, c.color, c.rank)
         <= NumberCardInstances(g, c.color, c.rank)}

----------------------------------------------------------------------------
(* The inputs of the runs                                                  *)

\* Before the first deal: every card is in the deck.
FreshObs(g) ==
  Observation(g, PartialHands(g, FALSE, 0), << >>, NoFireworks(g),
              g.max_information_tokens, g.max_life_tokens, << >>, 0)

\* After the deal.
DealtObs(g, show, extra) ==
  Observation(g, FullHands(g, show), << >>, NoFireworks(g),
              g.max_information_tokens, g.max_life_tokens,
              Deals(MaxDeals), extra)

\* Mid-game: one card was played, one was discarded and a hint was given;
\* the hands are full unless the deck ran out.
BusyObs(g, show) ==
  Observation(g,
    DealtHands(g, show,
               [q \in 1..g.num_players |->
                  IF q <= 2 - (MaxDeckSize(g) - g.num_players * g.hand_size)
                    THEN g.hand_size - 1 ELSE g.hand_size],
               FALSE),
    << Card(g.num_colors - 1, g.num_ranks - 1) >>,
    [c \in 1..g.num_colors |-> IF c = 1 THEN 1 ELSE 0],
    g.max_information_tokens - 1, g.max_life_tokens,
    << DealItem, OlderItem(g) >>, 0)

\* Every game, before the deal, after it (in step and out of step with the
\* deck) and mid-game.
GameInputs ==
  UNION {{Input(g, FreshObs(g), show), Input(g, DealtObs(g, show, 0), show),
          Input(g, DealtObs(g, show, 1), show), Input(g, BusyObs(g, show), show)} :
           g \in Configs, show \in BOOLEAN}

\* Every hand occupancy, with knowledge for the held cards or every slot.
OccupancyInputs ==
  {Input(RefGame(t),
         Observation(RefGame(t), DealtHands(RefGame(t), show, occ, ak), << >>,
                     NoFireworks(RefGame(t)), MaxInformationTokens,
                     MaxLifeTokens, << >>, 0),
         show) :
     t \in ObservationTypes, show \in BOOLEAN, ak \in BOOLEAN,
     occ \in [1..MaxPlayers -> 0..MaxHandSize]}

\* Every card, valid or not, in every slot of full hands.
CardInputs ==
  LET g == RefGame(kCardKnowledge)
  IN  {Input(g,
             Observation(g,
               [FullHands(g, show) EXCEPT ![q].cards[k] = card],
               << >>, NoFireworks(g), MaxInformationTokens, MaxLifeTokens,
               << >>, 0),
             show) :
         show \in BOOLEAN, q \in 1..MaxPlayers, k \in 1..MaxHandSize,
         card \in ValidCards(g) \cup {InvalidCard}}

\* Every state of the fireworks, after the deal.
FireworkInputs ==
  {Input(RefGame(t),
         Observation(RefGame(t), FullHands(RefGame(t), FALSE), << >>, fw,
                     MaxInformationTokens, MaxLifeTokens, << >>, 0),
         FALSE) :
     t \in ObservationTypes, fw \in [1..MaxColors -> 0..MaxRanks]}

\* Every deck size: while the d-th card is dealt, and with m cards of the
\* deck discarded after the deal.
DeckInputs ==
  LET g == RefGame(kCardKnowledge)
  IN  {Input(g, Observation(g, PartialHands(g, FALSE, d), << >>,
                            NoFireworks(g), MaxInformationTokens,
                            MaxLifeTokens, Deals(Min(d, MaxDeals)), 0),
             FALSE) :
         d \in 0..(MaxPlayers * MaxHandSize)}
      \cup
      {Input(g, Observation(g, FullHands(g, FALSE), FirstCards(g, m),
                            NoFireworks(g), MaxInformationTokens,
                            MaxLifeTokens, << >>, 0),
             FALSE) :
         m \in 0..(MaxDeckSize(g) - MaxPlayers * MaxHandSize)}

\* Every number of information and life tokens, and the numbers next to
\* the range.
TokenInputs ==
  LET g == RefGame(kCardKnowledge)
  IN  {Input(g, Observation(g, FullHands(g, FALSE), << >>, NoFireworks(g),
                            info, life, << >>, 0),
             FALSE) :
         info \in (-1)..(MaxInformationTokens + 1),
         life \in (-1)..(MaxLifeTokens + 1)}

\* Every short discard pile.
DiscardInputs ==
  LET g == RefGame(kCardKnowledge)
  IN  {Input(g, Observation(g, FullHands(g, FALSE), pile, NoFireworks(g),
                            MaxInformationTokens, MaxLifeTokens, << >>, 0),
             FALSE) :
         pile \in DiscardPiles(g)}

\* Every move history.
HistoryInputs ==
  LET g == RefGame(kMinimal)
  IN  {Input(g, Observation(g, FullHands(g, FALSE), << >>, NoFireworks(g),
                            MaxInformationTokens, MaxLifeTokens, moves, 0),
             FALSE) :
         moves \in Histories(g)}

----------------------------------------------------------------------------
(* CanonicalObservationEncoder::Encode, one action per statement           *)

Zeros(n) == [i \in 1..n |-> 0]
Ones(n) == [i \in 1..n |-> 1]

\* A call of Encode on one of `inputs`, before its first statement.
Call(inputs) ==
  \E in \in inputs :
    /\ game = in.game
    /\ obs = in.obs
    /\ show_own_cards = in.show

Init ==
  /\ \/ Call(GameInputs)
     \/ Call(OccupancyInputs)
     \/ Call(CardInputs)
     \/ Call(FireworkInputs)
     \/ Call(DeckInputs)
     \/ Call(TokenInputs)
     \/ Call(DiscardInputs)
     \/ Call(HistoryInputs)
  /\ pc = "Encode"
  /\ encoding = << >>
  /\ scale = << >>
  /\ offset = 0
  /\ lens = << >>
  /\ why = "ok"

\* offset += <section encoder>(...): the call returned r; go on at `next`
\* or end the call the way r ended.
Section(r, next) ==
  /\ why' = r.why
  /\ IF Ok(r)
       THEN /\ encoding' = r.encoding
            /\ scale' = r.scale
            /\ offset' = offset + r.offset
            /\ lens' = Append(lens, r.offset)
            /\ pc' = next
       ELSE /\ pc' = IF r.why = "undefined" THEN "undefined" ELSE "aborted"
            /\ UNCHANGED <<encoding, scale, offset, lens>>
  /\ UNCHANGED <<game, obs, show_own_cards>>

\* std::vector<float> encoding(FlatLength(Shape()), 0); int offset = 0;
Allocate ==
  /\ pc = "Encode"
  /\ encoding' = Zeros(FlatLength(Shape(game)))
  /\ scale' = Ones(FlatLength(Shape(game)))
  /\ offset' = 0
  /\ pc' = "EncodeHands"
  /\ UNCHANGED <<game, obs, show_own_cards, lens, why>>

Hands ==
  /\ pc = "EncodeHands"
  /\ Section(EncodeHands(game, obs, offset, encoding, scale, show_own_cards),
             "EncodeBoard")

Board ==
  /\ pc = "EncodeBoard"
  /\ Section(EncodeBoard(game, obs, offset, encoding, scale), "EncodeDiscards")

Discards ==
  /\ pc = "EncodeDiscards"
  /\ Section(EncodeDiscards(game, obs, offset, encoding, scale),
             "EncodeLastAction")

LastAction ==
  /\ pc = "EncodeLastAction"
  /\ Section(EncodeLastAction_(game, obs, offset, encoding, scale),
             IF game.observation_type # kMinimal
               THEN "EncodeV0Belief" ELSE "return")

V0Belief ==
  /\ pc = "EncodeV0Belief"
  /\ Section(EncodeV0Belief_(game, obs, offset, encoding, scale), "return")

\* assert(offset == encoding.size()); return encoding;
Return ==
  /\ pc = "return"
  /\ IF offset = Len(encoding)
       THEN pc' = "returned" /\ why' = "ok"
       ELSE pc' = "aborted" /\ why' = "length"
  /\ UNCHANGED <<game, obs, show_own_cards, encoding, scale, offset, lens>>

Next ==
  \/ Allocate
  \/ Hands
  \/ Board
  \/ Discards
  \/ LastAction
  \/ V0Belief
  \/ Return

Spec == Init /\ [][Next]_vars

----------------------------------------------------------------------------
(* The layout the specification states (section 4.1)                       *)

LayoutHands(g) ==
  g.num_players * g.hand_size * (g.num_colors * g.num_ranks) + g.num_players

LayoutBoard(g) ==
  (MaxDeckSize(g) - g.num_players * g.hand_size)
    + g.num_colors * g.num_ranks
    + g.max_information_tokens + g.max_life_tokens

LayoutDiscards(g) == MaxDeckSize(g)

LayoutLastAction(g) ==
  g.num_players + 4 + g.num_players + g.num_colors + g.num_ranks
    + g.hand_size + g.hand_size + (g.num_colors * g.num_ranks) + 2

LayoutCardKnowledge(g) ==
  g.num_players * g.hand_size
    * (g.num_colors * g.num_ranks + g.num_colors + g.num_ranks)

LayoutTotal(g) ==
  LayoutHands(g) + LayoutBoard(g) + LayoutDiscards(g) + LayoutLastAction(g)
    + (IF g.observation_type = kMinimal THEN 0 ELSE LayoutCardKnowledge(g))

\* The offsets at which the sections start, and the offset after the last.
StartOfBoard(g) == LayoutHands(g)
StartOfDiscards(g) == StartOfBoard(g) + LayoutBoard(g)
StartOfLastAction(g) == StartOfDiscards(g) + LayoutDiscards(g)
StartOfCardKnowledge(g) == StartOfLastAction(g) + LayoutLastAction(g)

\* The entry at C++ index i of the output vector.
At(i) == encoding[i + 1]

\* The entries of the output vector from offset `from`, `width` of them.
Field(from, width) == [i \in 1..width |-> encoding[from + i]]

Allocated == pc # "Encode"
Returned == pc = "returned"

----------------------------------------------------------------------------
(* Claims                                                                  *)

\* C1: for every game, Shape() is a single length, the sum of the section
\* lengths of the layout (the card knowledge section left out exactly in
\* the minimal observation type), and the vector Encode allocates has that
\* length whatever the observation.
C1_ShapeIsSumOfSections ==
  /\ Len(Shape(game)) = 1
  /\ Shape(game)[1] = LayoutTotal(game)
  /\ Allocated => Len(encoding) = LayoutTotal(game)

\* C1, the case: a vector was allocated for a minimal game, without the
\* card knowledge section.
C1_Witness ==
  /\ Allocated
  /\ game.observation_type = kMinimal
  /\ game.num_colors # game.num_ranks
  /\ Len(encoding) = LayoutHands(game) + LayoutBoard(game)
                       + LayoutDiscards(game) + LayoutLastAction(game)
  /\ LayoutCardKnowledge(game) > 0

\* The static lengths of the sections, in the order Encode writes them.
SectionLengths(g) ==
  << HandsSectionLength(g), BoardSectionLength(g), DiscardSectionLength(g),
     LastActionSectionLength(g), CardKnowledgeSectionLength(g) >>

\* C2: for every observation, no section encoder ends on a cursor that
\* differs from its static section length, each returns that length, and
\* after the last section the cursor is the length of the vector, Shape().
C2_NoDrift ==
  /\ why # "length"
  /\ \A k \in 1..Len(lens) : lens[k] = SectionLengths(game)[k]
  /\ pc \in {"return", "returned"} =>
       /\ Len(lens) = IF game.observation_type = kMinimal THEN 4 ELSE 5
       /\ offset = Len(encoding)
       /\ Len(encoding) = FlatLength(Shape(game))

\* C2, the case: Encode returned for hands that are not full, one of them
\* empty, all five sections written.
C2_Witness ==
  /\ Returned
  /\ Len(lens) = 5
  /\ \E q \in 1..Len(obs.hands) : Len(obs.hands[q].cards) = 0
  /\ \E q \in 1..Len(obs.hands) :
       /\ Len(obs.hands[q].cards) > 0
       /\ Len(obs.hands[q].cards) < game.hand_size

\* The section an encoder step of Encode writes: its start and its length.
SectionStart(g, p) ==
  CASE p = "EncodeHands" -> 0
    [] p = "EncodeBoard" -> StartOfBoard(g)
    [] p = "EncodeDiscards" -> StartOfDiscards(g)
    [] p = "EncodeLastAction" -> StartOfLastAction(g)
    [] p = "EncodeV0Belief" -> StartOfCardKnowledge(g)

SectionWidth(g, p) ==
  CASE p = "EncodeHands" -> LayoutHands(g)
    [] p = "EncodeBoard" -> LayoutBoard(g)
    [] p = "EncodeDiscards" -> LayoutDiscards(g)
    [] p = "EncodeLastAction" -> LayoutLastAction(g)
    [] p = "EncodeV0Belief" -> LayoutCardKnowledge(g)

SectionSteps ==
  {"EncodeHands", "EncodeBoard", "EncodeDiscards", "EncodeLastAction",
   "EncodeV0Belief"}

\* The C++ indices of the entries a step changes.
Changed == {i \in 0..(Len(encoding) - 1) : encoding'[i + 1] # encoding[i + 1]}

\* A step of a section encoder starts at the start of its section and
\* changes entries of its section only.
WritesOwnSection ==
  pc \in SectionSteps =>
    /\ offset = SectionStart(game, pc)
    /\ \A i \in Changed :
         /\ SectionStart(game, pc) <= i
         /\ i < SectionStart(game, pc) + SectionWidth(game, pc)

\* C3: in Encode every section encoder starts at the sum of the static
\* lengths of the sections before it, and every entry it sets lies inside
\* its own range, so the sections are consecutive and do not overlap.
C3_SectionsDoNotOverlap == [][WritesOwnSection]_vars

----------------------------------------------------------------------------
\* The Hands section has been written.
HandsWritten == Len(lens) >= 1

\* Slot k of player p (both from 0) in the Hands section.
HandSlot(p, k) ==
  Field((p * game.hand_size + k) * (game.num_colors * game.num_ranks),
        game.num_colors * game.num_ranks)

OneHot(f, at) == \A i \in 1..Len(f) : f[i] = IF i = at + 1 THEN 1 ELSE 0
AllZero(f) == \A i \in 1..Len(f) : f[i] = 0

\* C4: in the Hands section an occupied slot of a player other than the
\* observer has exactly one entry set, at color*num_ranks + rank; a slot
\* beyond the hand's occupancy is all zero; the observer's slots are all
\* zero without show_own_cards and one-hot like the others with it.
C4_HandsOneHot ==
  HandsWritten =>
    \A p \in 0..(game.num_players - 1) : \A k \in 0..(game.hand_size - 1) :
      LET cards == obs.hands[p + 1].cards
      IN  IF k >= Len(cards) \/ (p = 0 /\ ~show_own_cards)
            THEN AllZero(HandSlot(p, k))
            ELSE OneHot(HandSlot(p, k),
                        cards[k + 1].color * game.num_ranks + cards[k + 1].rank)

\* C4, the case: shown own cards, another player's occupied slot holding a
\* card of the last color and a middle rank, and an unoccupied slot.
C4_Witness ==
  /\ Returned
  /\ show_own_cards
  /\ Len(obs.hands[1].cards) > 0
  /\ game.num_ranks > 2
  /\ \E k \in 1..Len(obs.hands[2].cards) :
       /\ obs.hands[2].cards[k].color = game.num_colors - 1
       /\ obs.hands[2].cards[k].color > 0
       /\ obs.hands[2].cards[k].rank = 1
  /\ \E q \in 1..Len(obs.hands) : Len(obs.hands[q].cards) < game.hand_size

\* C5: the last num_players entries of the Hands section are one entry per
\* player, 1 exactly when that player holds fewer than hand_size cards.
C5_MissingCardBits ==
  HandsWritten =>
    \A p \in 0..(game.num_players - 1) :
      At(LayoutHands(game) - game.num_players + p)
        = IF Len(obs.hands[p + 1].cards) < game.hand_size THEN 1 ELSE 0

\* C5, the case: one hand is short and another one is full.
C5_Witness ==
  /\ Returned
  /\ \E q \in 1..Len(obs.hands) :
       /\ Len(obs.hands[q].cards) < game.hand_size
       /\ Len(obs.hands[q].cards) > 0
       /\ At(LayoutHands(game) - game.num_players + q - 1) = 1
  /\ \E q \in 1..Len(obs.hands) :
       /\ Len(obs.hands[q].cards) = game.hand_size
       /\ At(LayoutHands(game) - game.num_players + q - 1) = 0

\* C5, all hands full: all the bits are 0.
C5_WitnessFull ==
  /\ Returned
  /\ \A q \in 1..Len(obs.hands) : Len(obs.hands[q].cards) = game.hand_size
  /\ \A p \in 0..(game.num_players - 1) :
       At(LayoutHands(game) - game.num_players + p) = 0

\* A hand-validity rule is broken by the observation.
HandRuleBroken ==
  \E p \in 1..Len(obs.hands) : \E k \in 1..Len(obs.hands[p].cards) :
    LET valid == obs.hands[p].cards[k].color >= 0
                   /\ obs.hands[p].cards[k].rank >= 0
    IN  \/ p > 1 /\ ~valid
        \/ p = 1 /\ show_own_cards /\ ~valid
        \/ p = 1 /\ ~show_own_cards /\ valid

\* C6: Encode never returns a vector when a hand-validity rule is broken
\* (an invalid card of another player, an invalid own card with
\* show_own_cards, a valid own card without it): it aborts in EncodeHands.
C6_AbortsOnInvalidHands ==
  HandRuleBroken =>
    /\ pc \in {"Encode", "EncodeHands", "aborted"}
    /\ pc = "aborted" => why = "assert" /\ lens = << >>

\* C6, the case: Encode aborted on an observation that breaks a rule.
C6_Witness ==
  /\ HandRuleBroken
  /\ pc = "aborted"
  /\ why = "assert"

\* C6, the three rules each abort.
C6_WitnessOther ==
  /\ pc = "aborted"
  /\ \E p \in 2..Len(obs.hands) : \E k \in 1..Len(obs.hands[p].cards) :
       obs.hands[p].cards[k].color < 0

----------------------------------------------------------------------------
\* The Board section has been written.
BoardWritten == Len(lens) >= 2

\* The widths and the starts of the fields of the Board section.
DeckWidth(g) == MaxDeckSize(g) - g.num_players * g.hand_size
StartOfFireworks(g) == StartOfBoard(g) + DeckWidth(g)
StartOfInformation(g) == StartOfFireworks(g) + g.num_colors * g.num_ranks
StartOfLife(g) == StartOfInformation(g) + g.max_information_tokens

\* The first v entries of f are 1 and all the later ones are 0.
IsThermometer(f, v) == \A i \in 1..Len(f) : f[i] = IF i <= v THEN 1 ELSE 0

DeckField == Field(StartOfBoard(game), DeckWidth(game))
InformationField ==
  Field(StartOfInformation(game), game.max_information_tokens)
LifeField == Field(StartOfLife(game), game.max_life_tokens)

\* C7: the deck-size, information-token and life-token fields of the Board
\* section are thermometers: for a value v from 0 to the width of the
\* field, the first v entries are set and all the later ones are zero.
C7_BoardThermometers ==
  BoardWritten =>
    /\ obs.deck_size \in 0..DeckWidth(game) =>
         IsThermometer(DeckField, obs.deck_size)
    /\ obs.information_tokens \in 0..game.max_information_tokens
    /\ IsThermometer(InformationField, obs.information_tokens)
    /\ obs.life_tokens \in 0..game.max_life_tokens
    /\ IsThermometer(LifeField, obs.life_tokens)

\* C7, the case: a deck field that is neither empty nor full.
C7_Witness ==
  /\ Returned
  /\ obs.deck_size > 0
  /\ obs.deck_size < DeckWidth(game)
  /\ DeckField[obs.deck_size] = 1
  /\ DeckField[obs.deck_size + 1] = 0

\* C7, information tokens neither none nor all, no life token left.
C7_WitnessTokens ==
  /\ Returned
  /\ obs.information_tokens > 0
  /\ obs.information_tokens < game.max_information_tokens
  /\ obs.life_tokens = 0
  /\ game.max_life_tokens > 0

\* The region of color c (from 0) in the fireworks field.
FireworksRegion(c) ==
  Field(StartOfFireworks(game) + c * game.num_ranks, game.num_ranks)

\* C8: in the fireworks field of the Board section the region of a color
\* is all zero when the progress of the color is 0 and has otherwise
\* exactly one entry set, at index progress - 1.
C8_FireworksOneHot ==
  BoardWritten =>
    \A c \in 0..(game.num_colors - 1) :
      IF obs.fireworks[c + 1] = 0
        THEN AllZero(FireworksRegion(c))
        ELSE OneHot(FireworksRegion(c), obs.fireworks[c + 1] - 1)

----------------------------------------------------------------------------
\* The Discards section has been written.
DiscardsWritten == Len(lens) >= 3

\* instances_of(color, rank) and the start of the field of (color, rank),
\* the fields in color-major order.
RECURSIVE InstancesBefore(_, _, _)
InstancesBefore(g, color, rank) ==
  IF color = 0 /\ rank = 0 THEN 0
  ELSE IF rank = 0
    THEN InstancesBefore(g, color - 1, g.num_ranks - 1)
           + NumberCardInstances(g, color - 1, g.num_ranks - 1)
    ELSE InstancesBefore(g, color, rank - 1)
           + NumberCardInstances(g, color, rank - 1)

DiscardField(enc, g, color, rank) ==
  [i \in 1..NumberCardInstances(g, color, rank) |->
     enc[StartOfDiscards(g) + InstancesBefore(g, color, rank) + i]]

\* The number of cards (color, rank) in the discard pile.
Discarded(pile, color, rank) ==
  Cardinality({k \in 1..Len(pile) :
                 pile[k].color = color /\ pile[k].rank = rank})

\* The vector after EncodeDiscards, had the discard pile been `pile`.
DiscardsOf(pile) ==
  EncodeDiscards(game, [obs EXCEPT !.discard_pile = pile],
                 offset, encoding, scale).encoding

\* C9: in the Discards section the fields are in color-major order, the
\* field of (color, rank) has the width instances_of(color, rank) and has
\* exactly its first k entries set, k the number of such cards in the
\* discard pile; one more card (c, r) in the pile changes the field of
\* (c, r) only.
C9_DiscardFields ==
  /\ DiscardsWritten =>
       \A c \in 0..(game.num_colors - 1) : \A r \in 0..(game.num_ranks - 1) :
         IsThermometer(DiscardField(encoding, game, c, r),
                       Discarded(obs.discard_pile, c, r))
  /\ pc = "EncodeDiscards" =>
       \A card \in ValidCards(game) :
         Discarded(obs.discard_pile, card.color, card.rank)
           < NumberCardInstances(game, card.color, card.rank) =>
           LET before == DiscardsOf(obs.discard_pile)
               after == DiscardsOf(Append(obs.discard_pile, card))
           IN  /\ before # after
               /\ \A i \in 1..Len(before) :
                    before[i] # after[i] =>
                      /\ i > StartOfDiscards(game)
                           + InstancesBefore(game, card.color, card.rank)
                      /\ i <= StartOfDiscards(game)
                            + InstancesBefore(game, card.color, card.rank)
                            + NumberCardInstances(game, card.color, card.rank)

----------------------------------------------------------------------------
\* The Last-Action section has been written.
LastActionWritten == Len(lens) >= 4

\* The non-deal moves of the history, which lists the most recent move
\* first.
NonDealMoves(moves) == {k \in 1..Len(moves) : moves[k].move.move_type # kDeal}
MostRecentNonDeal(moves) ==
  CHOOSE k \in NonDealMoves(moves) : \A j \in NonDealMoves(moves) : k <= j

\* The entries of the Last-Action section (from 0) that are set for a
\* move: the fields of section 4.5, concatenated.
LastActionEntries(g, item) ==
  LET t == item.move.move_type
      hint == t \in {kRevealColor, kRevealRank}
      card == t \in {kPlay, kDiscard}
      type == g.num_players
      target == type + 4
      color == target + g.num_players
      rank == color + g.num_colors
      outcome == rank + g.num_ranks
      position == outcome + g.hand_size
      value == position + g.hand_size
      result == value + g.num_colors * g.num_ranks
      moved == (item.player + item.move.target_offset) % g.num_players
      affected == {j \in 0..(g.hand_size - 1) :
                     BitSet(item.reveal_bitmask, j)}
  IN  {item.player}
      \cup (IF t = kPlay THEN {type} ELSE {})
      \cup (IF t = kDiscard THEN {type + 1} ELSE {})
      \cup (IF t = kRevealColor THEN {type + 2} ELSE {})
      \cup (IF t = kRevealRank THEN {type + 3} ELSE {})
      \cup (IF hint THEN {target + moved} ELSE {})
      \cup (IF hint THEN {outcome + j : j \in affected} ELSE {})
      \cup (IF t = kRevealColor THEN {color + item.move.color} ELSE {})
      \cup (IF t = kRevealRank THEN {rank + item.move.rank} ELSE {})
      \cup (IF card THEN {position + item.move.card_index} ELSE {})
      \cup (IF card
              THEN {value + item.color * g.num_ranks + item.rank}
              ELSE {})
      \cup (IF t = kPlay /\ item.scored THEN {result} ELSE {})
      \cup (IF t = kPlay /\ item.information_token THEN {result + 1} ELSE {})

LastActionField == Field(StartOfLastAction(game), LayoutLastAction(game))

\* C10: the Last-Action section is all zero over its static width when the
\* history holds no non-deal move, and encodes otherwise the most recent
\* non-deal move, whatever deal moves are more recent than it.
C10_LastNonDealMove ==
  LastActionWritten =>
    IF NonDealMoves(obs.last_moves) = {}
      THEN AllZero(LastActionField)
      ELSE \A i \in 1..Len(LastActionField) :
             LastActionField[i] = 1
               <=> (i - 1) \in LastActionEntries(game,
                     obs.last_moves[MostRecentNonDeal(obs.last_moves)])

\* C10, the case: a deal is more recent than the encoded move and another
\* non-deal move is older.
C10_Witness ==
  /\ Returned
  /\ Len(obs.last_moves) >= 3
  /\ obs.last_moves[1].move.move_type = kDeal
  /\ MostRecentNonDeal(obs.last_moves) = 2
  /\ \E k \in 3..Len(obs.last_moves) : k \in NonDealMoves(obs.last_moves)
  /\ ~AllZero(LastActionField)

\* C10, a history of deals only.
C10_WitnessDeals ==
  /\ Returned
  /\ obs.last_moves # << >>
  /\ NonDealMoves(obs.last_moves) = {}
  /\ AllZero(LastActionField)

----------------------------------------------------------------------------
(* CanonicalObservationEncoder::EncodeLastAction                           *)

\* The colors and the hand size of the game whose move histories are
\* encoded: a third color and a fourth slot exist.
HintColors == 3
HintHandSize == 4

HintGame == Game(HintColors, MaxRanks, MaxPlayers, HintHandSize, kCardKnowledge)

\* Every move history of that game, after the deal.
LastActionInputs ==
  {Input(HintGame,
         Observation(HintGame, FullHands(HintGame, FALSE), << >>,
                     NoFireworks(HintGame), MaxInformationTokens,
                     MaxLifeTokens, moves, 0),
         FALSE) :
     moves \in Histories(HintGame)}

InitLastAction ==
  /\ Call(LastActionInputs)
  /\ pc = "LastAction:allocate"
  /\ encoding = << >>
  /\ scale = << >>
  /\ offset = 0
  /\ lens = << >>
  /\ why = "ok"

\* std::vector<float> encoding(LastActionSectionLength(game), 0);
\* int offset = 0;
LastActionAllocate ==
  /\ pc = "LastAction:allocate"
  /\ encoding' = Zeros(LastActionSectionLength(game))
  /\ scale' = Ones(LastActionSectionLength(game))
  /\ offset' = 0
  /\ pc' = "LastAction:encode"
  /\ UNCHANGED <<game, obs, show_own_cards, lens, why>>

\* offset += EncodeLastAction_(game, obs, offset, &encoding);
LastActionEncode ==
  /\ pc = "LastAction:encode"
  /\ Section(EncodeLastAction_(game, obs, offset, encoding, scale), "return")

NextLastAction ==
  \/ LastActionAllocate
  \/ LastActionEncode
  \/ Return

SpecLastAction == InitLastAction /\ [][NextLastAction]_vars

----------------------------------------------------------------------------
\* The last non-deal move of the observation (there is one).
LastMove == obs.last_moves[MostRecentNonDeal(obs.last_moves)]
HasLastMove == NonDealMoves(obs.last_moves) # {}

\* The fields of the Last-Action section, which starts at `base`.
ActingField(base) == Field(base, game.num_players)
MoveTypeField(base) == Field(base + game.num_players, 4)
TargetField(base) == Field(base + game.num_players + 4, game.num_players)
ColorField(base) ==
  Field(base + 2 * game.num_players + 4, game.num_colors)
RankField(base) ==
  Field(base + 2 * game.num_players + 4 + game.num_colors, game.num_ranks)
OutcomeField(base) ==
  Field(base + 2 * game.num_players + 4 + game.num_colors + game.num_ranks,
        game.hand_size)
PositionField(base) ==
  Field(base + 2 * game.num_players + 4 + game.num_colors + game.num_ranks
          + game.hand_size,
        game.hand_size)
PlayedCardField(base) ==
  Field(base + 2 * game.num_players + 4 + game.num_colors + game.num_ranks
          + 2 * game.hand_size,
        game.num_colors * game.num_ranks)
PlayResultField(base) ==
  Field(base + 2 * game.num_players + 4 + game.num_colors + game.num_ranks
          + 2 * game.hand_size + game.num_colors * game.num_ranks,
        2)

\* The entries of f that are set, from 0.
SetEntries(f) == {i \in 0..(Len(f) - 1) : f[i + 1] = 1}
ZeroOrOne(f) == \A i \in 1..Len(f) : f[i] \in {0, 1}

\* The last non-deal move is a RevealColor hint by player 0 to player 1,
\* of color 2, that affected the slots 0 and 3.
ScenarioC ==
  /\ HasLastMove
  /\ LastMove.player = 0
  /\ LastMove.move.move_type = kRevealColor
  /\ LastMove.move.target_offset = 1
  /\ LastMove.move.color = 2
  /\ \A j \in 0..(game.hand_size - 1) :
       BitSet(LastMove.reveal_bitmask, j) <=> j \in {0, 3}

\* What scenario C shows apart from the move type.
ScenarioCFields ==
  /\ ZeroOrOne(Field(0, Len(encoding)))
  /\ SetEntries(ActingField(0)) = {0}
  /\ SetEntries(TargetField(0)) = {1}
  /\ SetEntries(ColorField(0)) = {2}
  /\ AllZero(RankField(0))
  /\ SetEntries(OutcomeField(0)) = {0, 3}

\* C11 as stated: for the RevealColor hint by player 0 to player 1 of
\* color 2 that affected the slots 0 and 3, the Last-Action section has
\* acting-player bit 0, move-type bit 1, target-player bit 1 and color bit
\* 2 set, the rank field all zero and exactly the outcome bits 0 and 3 set.
C11_ScenarioC_AsStated ==
  (Returned /\ ScenarioC) =>
    /\ ScenarioCFields
    /\ MoveTypeField(0)[1 + 1] = 1

\* C11: for that hint the Last-Action section has acting-player bit 0,
\* move-type bit 2 (RevealColor is the third of Play, Discard, RevealColor,
\* RevealRank) and no other move-type bit, target-player bit 1 and color
\* bit 2 set, the rank field all zero and exactly the outcome bits 0 and 3
\* set.
C11_ScenarioC ==
  (Returned /\ ScenarioC) =>
    /\ ScenarioCFields
    /\ SetEntries(MoveTypeField(0)) = {2}

\* C11, the case: the accessor returned for the hint of the scenario.
C11_Witness ==
  /\ Returned
  /\ ScenarioC
  /\ SetEntries(OutcomeField(0)) = {0, 3}

\* C12: for every last non-deal move the fields that do not apply to its
\* type are all zero at their fixed widths: target and hint outcome are
\* set only for hints, the color only for RevealColor, the rank only for
\* RevealRank, position and card only for Play and Discard, the two result
\* entries only for Play; exactly one move-type entry is set.
C12_InapplicableFieldsZero ==
  (Returned /\ HasLastMove) =>
    LET t == LastMove.move.move_type
        hint == t \in {kRevealColor, kRevealRank}
        card == t \in {kPlay, kDiscard}
    IN  /\ Len(encoding) = LayoutLastAction(game)
        /\ ZeroOrOne(Field(0, Len(encoding)))
        /\ Cardinality(SetEntries(MoveTypeField(0))) = 1
        /\ ~hint => AllZero(TargetField(0)) /\ AllZero(OutcomeField(0))
        /\ t # kRevealColor => AllZero(ColorField(0))
        /\ t # kRevealRank => AllZero(RankField(0))
        /\ ~card => AllZero(PositionField(0)) /\ AllZero(PlayedCardField(0))
        /\ t # kPlay => AllZero(PlayResultField(0))

\* C12, the case: a discard that returned an information token; its result
\* entries stay zero, its position and card are set.
C12_Witness ==
  /\ Returned
  /\ HasLastMove
  /\ LastMove.move.move_type = kDiscard
  /\ LastMove.information_token
  /\ AllZero(PlayResultField(0))
  /\ ~AllZero(PositionField(0))
  /\ ~AllZero(PlayedCardField(0))

----------------------------------------------------------------------------
(* ExtractBelief and CanonicalObservationEncoder::EncodeHandMask           *)

\* ExtractBelief(encoding, game): the grid of every slot, numerators and
\* denominators, or the failed assert on the size of the encoding.
ExtractBelief(enc, sc, g) ==
  LET bits_per_card == BitsPerCard(g)
      encoding_sector_len == bits_per_card + g.num_colors + g.num_ranks
      slots == g.num_players * g.hand_size
      from(b) == ((b - 1) \div bits_per_card) * encoding_sector_len
                   + ((b - 1) % bits_per_card) + 1
  IN  IF encoding_sector_len * slots # Len(enc)
        THEN Result("assert", enc, sc, 0)
        ELSE Result("ok",
                    [b \in 1..(slots * bits_per_card) |-> enc[from(b)]],
                    [b \in 1..(slots * bits_per_card) |-> sc[from(b)]],
                    0)

\* What an observer can know about a color or a rank of n values: it was
\* hinted (only that value is plausible), or it was not and each value is
\* plausible or not.
ValueKnowledge(n) ==
  {[plausible |-> [x \in 1..n |-> x = v + 1], value |-> v] : v \in 0..(n - 1)}
    \cup {[plausible |-> f, value |-> -1] : f \in [1..n -> BOOLEAN]}

CardKnowledges(g) ==
  {[color_plausible |-> ck.plausible, rank_plausible |-> rk.plausible,
    color |-> ck.value, rank |-> rk.value] :
     ck \in ValueKnowledge(g.num_colors), rk \in ValueKnowledge(g.num_ranks)}

\* Hands of occ[p + 1] cards for player p, with the knowledge kn about the
\* slots in `about` and no knowledge about the others.
KnownHands(g, occ, about, kn) ==
  [q \in 1..g.num_players |->
     [cards |-> [k \in 1..occ[q] |-> DealtCard(g, FALSE, q - 1, k - 1)],
      knowledge |-> [k \in 1..occ[q] |->
                       IF << q - 1, k - 1 >> \in about
                         THEN kn ELSE NoKnowledge(g)]]]

AllSlots(g) == (0..(g.num_players - 1)) \X (0..(g.hand_size - 1))
FullOccupancy(g) == [q \in 1..g.num_players |-> g.hand_size]
\* The occupancy after d cards were dealt, player 0 first.
DealtOccupancy(g, d) ==
  [q \in 1..g.num_players |->
     Min(g.hand_size, Max(0, d - (q - 1) * g.hand_size))]

\* The hands of the knowledge inputs: every knowledge about the first or
\* the last slot of the first or the last player, and every knowledge
\* about all the slots, for every number of cards dealt.
KnowledgeHands(g) ==
  {KnownHands(g, FullOccupancy(g), {<< p, k >>}, kn) :
     p \in {0, g.num_players - 1}, k \in {0, g.hand_size - 1},
     kn \in CardKnowledges(g)}
    \cup {KnownHands(g, DealtOccupancy(g, d), AllSlots(g), kn) :
            d \in 0..(g.num_players * g.hand_size), kn \in CardKnowledges(g)}

HandMaskInputs ==
  LET g == RefGame(kCardKnowledge)
  IN  {Input(g, Observation(g, hands, << >>, NoFireworks(g),
                            MaxInformationTokens, MaxLifeTokens, << >>, 0),
             FALSE) :
         hands \in KnowledgeHands(g)}

InitHandMask ==
  /\ Call(HandMaskInputs)
  /\ pc = "HandMask:allocate"
  /\ encoding = << >>
  /\ scale = << >>
  /\ offset = 0
  /\ lens = << >>
  /\ why = "ok"

\* std::vector<float> encoding(CardKnowledgeSectionLength(game), 0);
HandMaskAllocate ==
  /\ pc = "HandMask:allocate"
  /\ encoding' = Zeros(CardKnowledgeSectionLength(game))
  /\ scale' = Ones(CardKnowledgeSectionLength(game))
  /\ pc' = "HandMask:encode"
  /\ UNCHANGED <<game, obs, show_own_cards, offset, lens, why>>

\* EncodeCardKnowledge(game, obs, 0, &encoding); the length it returns is
\* dropped.
HandMaskEncode ==
  /\ pc = "HandMask:encode"
  /\ LET r == EncodeCardKnowledge(game, obs, 0, encoding, scale)
     IN  /\ why' = r.why
         /\ IF Ok(r)
              THEN /\ encoding' = r.encoding
                   /\ scale' = r.scale
                   /\ lens' = Append(lens, r.offset)
                   /\ pc' = "HandMask:extract"
              ELSE /\ pc' = IF r.why = "undefined"
                              THEN "undefined" ELSE "aborted"
                   /\ UNCHANGED <<encoding, scale, lens>>
  /\ UNCHANGED <<game, obs, show_own_cards, offset>>

\* auto hm = ExtractBelief(encoding, game); return hm;
Extract(at) ==
  /\ pc = at
  /\ LET r == ExtractBelief(encoding, scale, game)
     IN  /\ why' = r.why
         /\ IF Ok(r)
              THEN encoding' = r.encoding /\ scale' = r.scale
                     /\ pc' = "returned"
              ELSE UNCHANGED <<encoding, scale>> /\ pc' = "aborted"
  /\ UNCHANGED <<game, obs, show_own_cards, offset, lens>>

HandMaskExtract == Extract("HandMask:extract")

NextHandMask ==
  \/ HandMaskAllocate
  \/ HandMaskEncode
  \/ HandMaskExtract

SpecHandMask == InitHandMask /\ [][NextHandMask]_vars

----------------------------------------------------------------------------
\* The knowledge entry of slot k of player p, both from 0, if there is one.
HasKnowledge(p, k) == k < Len(obs.hands[p + 1].knowledge)
KnowledgeOf(p, k) == obs.hands[p + 1].knowledge[k + 1]

\* The three fields of slot k of player p in a Card-Knowledge encoding
\* that starts at `base`.
SectorWidth == game.num_colors * game.num_ranks + game.num_colors + game.num_ranks
SectorStart(base, p, k) == base + (p * game.hand_size + k) * SectorWidth
PlausibleGrid(base, p, k) ==
  Field(SectorStart(base, p, k), game.num_colors * game.num_ranks)
HintedColorField(base, p, k) ==
  Field(SectorStart(base, p, k) + game.num_colors * game.num_ranks,
        game.num_colors)
HintedRankField(base, p, k) ==
  Field(SectorStart(base, p, k) + game.num_colors * game.num_ranks
          + game.num_colors,
        game.num_ranks)

\* The grid f holds a 1 at (color, rank) exactly when kn has the color and
\* the rank plausible, and a 0 elsewhere.
IsPlausibilityGrid(f, kn) ==
  \A c \in 0..(game.num_colors - 1) : \A r \in 0..(game.num_ranks - 1) :
    f[c * game.num_ranks + r + 1]
      = IF kn.color_plausible[c + 1] /\ kn.rank_plausible[r + 1] THEN 1 ELSE 0

\* C13: in the Card-Knowledge encoding the grid entry (color, rank) of a
\* slot with a knowledge entry is 1 exactly when the color and the rank
\* are plausible for it; the colors-wide field after it has one entry, at
\* the hinted color, if the color was hinted and is all zero otherwise,
\* the ranks-wide field likewise; a slot without knowledge entry is all
\* zero.  The hand mask is the grids of that encoding.
C13_CardKnowledgeFields ==
  /\ pc = "HandMask:extract" =>
       \A p \in 0..(game.num_players - 1) : \A k \in 0..(game.hand_size - 1) :
         IF HasKnowledge(p, k)
           THEN /\ IsPlausibilityGrid(PlausibleGrid(0, p, k), KnowledgeOf(p, k))
                /\ IF KnowledgeOf(p, k).color >= 0
                     THEN OneHot(HintedColorField(0, p, k),
                                 KnowledgeOf(p, k).color)
                     ELSE AllZero(HintedColorField(0, p, k))
                /\ IF KnowledgeOf(p, k).rank >= 0
                     THEN OneHot(HintedRankField(0, p, k),
                                 KnowledgeOf(p, k).rank)
                     ELSE AllZero(HintedRankField(0, p, k))
           ELSE AllZero(Field(SectorStart(0, p, k), SectorWidth))
  /\ Returned =>
       /\ Len(encoding)
            = game.num_players * game.hand_size
                * game.num_colors * game.num_ranks
       /\ \A p \in 0..(game.num_players - 1) :
            \A k \in 0..(game.hand_size - 1) :
              LET grid == Field((p * game.hand_size + k)
                                  * game.num_colors * game.num_ranks,
                                game.num_colors * game.num_ranks)
              IN  IF HasKnowledge(p, k)
                    THEN IsPlausibilityGrid(grid, KnowledgeOf(p, k))
                    ELSE AllZero(grid)

\* C13, the case: a slot whose rank was hinted and whose color was not,
\* with one color ruled out, next to a slot without knowledge entry.
C13_Witness ==
  /\ pc = "HandMask:extract"
  /\ \E p \in 0..(game.num_players - 1) : \E k \in 0..(game.hand_size - 1) :
       /\ HasKnowledge(p, k)
       /\ KnowledgeOf(p, k).rank = 1
       /\ KnowledgeOf(p, k).color = -1
       /\ KnowledgeOf(p, k).color_plausible[1] = FALSE
       /\ KnowledgeOf(p, k).color_plausible[game.num_colors] = TRUE
       /\ OneHot(HintedRankField(0, p, k), 1)
  /\ \E p \in 0..(game.num_players - 1) : ~HasKnowledge(p, game.hand_size - 1)

----------------------------------------------------------------------------
(* CanonicalObservationEncoder::EncodeCardCount                            *)

\* A call on the game g and the observation o.
CallOn(g, o, show) ==
  /\ game = g
  /\ obs = o
  /\ show_own_cards = show

\* The observations are taken after the deal: every short discard pile,
\* also piles that hold a card more often than the deck does, with a deck
\* that is one card short, right, or one card long; and every fireworks
\* vector with at most one discard.
InitCardCount ==
  /\ LET g == RefGame(kCardKnowledge)
     IN  \/ \E pile \in Piles(g, MaxDiscards), extra \in {-1, 0, 1} :
              CallOn(g, Observation(g, FullHands(g, FALSE), pile,
                                    NoFireworks(g), MaxInformationTokens,
                                    MaxLifeTokens, << >>, extra),
                     FALSE)
         \/ \E pile \in Piles(g, 1),
               fw \in [1..g.num_colors -> 0..g.num_ranks] :
              CallOn(g, Observation(g, FullHands(g, FALSE), pile, fw,
                                    MaxInformationTokens, MaxLifeTokens,
                                    << >>, 0),
                     FALSE)
  /\ obs.deck_size >= 0
  /\ pc = "CardCount:compute"
  /\ encoding = << >>
  /\ scale = << >>
  /\ offset = 0
  /\ lens = << >>
  /\ why = "ok"

\* std::vector<float> encoding; auto cc = ComputeCardCount(game, obs);
\* `lens` holds the vector cc.
CardCountCompute ==
  /\ pc = "CardCount:compute"
  /\ LET cc == ComputeCardCount(game, obs)
     IN  /\ why' = cc.why
         /\ IF cc.why = "ok"
              THEN lens' = cc.card_count /\ pc' = "CardCount:copy"
              ELSE lens' = lens /\ pc' = "aborted"
  /\ UNCHANGED <<game, obs, show_own_cards, encoding, scale, offset>>

\* for (i < cc.size()) encoding.push_back((float)cc[i]); return encoding;
CardCountCopy ==
  /\ pc = "CardCount:copy"
  /\ encoding' = lens
  /\ scale' = Ones(Len(lens))
  /\ pc' = "returned"
  /\ UNCHANGED <<game, obs, show_own_cards, offset, lens, why>>

NextCardCount ==
  \/ CardCountCompute
  \/ CardCountCopy

SpecCardCount == InitCardCount /\ [][NextCardCount]_vars

----------------------------------------------------------------------------
\* The number of cards held in all the hands.
CardsInHands ==
  Cardinality({pk \in AllSlots(game) :
                 pk[2] < Len(obs.hands[pk[1] + 1].cards)})

\* What remains of (color, rank): the instances, less the discarded ones,
\* less the one on the firework.
Remaining(color, rank) ==
  NumberCardInstances(game, color, rank)
    - Discarded(obs.discard_pile, color, rank)
    - (IF rank < obs.fireworks[color + 1] THEN 1 ELSE 0)

RECURSIVE SumOver(_, _)
SumOver(f, S) ==
  IF S = {} THEN 0
  ELSE LET x == CHOOSE y \in S : TRUE IN f[x] + SumOver(f, S \ {x})

RemainingSum ==
  SumOver([c \in ValidCards(game) |-> Remaining(c.color, c.rank)],
          ValidCards(game))

\* C14: the card-count estimator returns for each (color, rank) the
\* instances less the discarded cards less 1 if the rank is below the
\* color's firework progress; it returns only when these counts sum to
\* deck_size plus the cards held in all hands, and aborts otherwise.
C14_CardCounts ==
  /\ Returned =>
       /\ Len(encoding) = game.num_colors * game.num_ranks
       /\ \A c \in ValidCards(game) :
            At(c.color * game.num_ranks + c.rank) = Remaining(c.color, c.rank)
       /\ RemainingSum = obs.deck_size + CardsInHands
  /\ (RemainingSum # obs.deck_size + CardsInHands) =>
       pc \in {"CardCount:compute", "aborted"}

\* C14, the case: counts returned for an observation with a discard and a
\* card on a firework.
C14_Witness ==
  /\ Returned
  /\ obs.discard_pile # << >>
  /\ \E c \in 1..game.num_colors : obs.fireworks[c] > 0
  /\ \E i \in 1..Len(encoding) : encoding[i] = 0

\* C14, the call aborted on a deck that is one card off.
C14_WitnessAbort ==
  /\ pc = "aborted"
  /\ RemainingSum = obs.deck_size + CardsInHands + 1

\* C15: every count the card-count estimator returns is non-negative; an
\* observation whose discards and fireworks make a count negative never
\* produces an output.
C15_CountsNonNegative ==
  Returned => \A i \in 1..Len(encoding) : encoding[i] >= 0

----------------------------------------------------------------------------
(* CanonicalObservationEncoder::EncodeV0Belief                             *)

\* The last card of the first color, of which the deck holds one.
TopCard(g) == Card(0, g.num_ranks - 1)

\* Discard piles and fireworks next to the knowledge: nothing; the top
\* card discarded; the first card of the first color played; the top card
\* discarded twice.
Boards(g) ==
  {[pile |-> << >>, fireworks |-> NoFireworks(g)],
   [pile |-> << TopCard(g) >>, fireworks |-> NoFireworks(g)],
   [pile |-> << >>,
    fireworks |-> [c \in 1..g.num_colors |-> IF c = 1 THEN 1 ELSE 0]],
   [pile |-> << TopCard(g), TopCard(g) >>, fireworks |-> NoFireworks(g)]}

\* A call of a belief accessor: every knowledge of the knowledge inputs on
\* an untouched board, and every knowledge about the observer's first slot
\* or about all slots of full hands on every board.
BeliefCall ==
  LET g == RefGame(kCardKnowledge)
  IN  \/ \E hands \in KnowledgeHands(g) :
           CallOn(g, Observation(g, hands, << >>, NoFireworks(g),
                                 MaxInformationTokens, MaxLifeTokens,
                                 << >>, 0),
                  FALSE)
      \/ \E about \in {{<< 0, 0 >>}, AllSlots(g)}, kn \in CardKnowledges(g),
            b \in Boards(g) :
           CallOn(g, Observation(g, KnownHands(g, FullOccupancy(g), about, kn),
                                 b.pile, b.fireworks, MaxInformationTokens,
                                 MaxLifeTokens, << >>, 0),
                  FALSE)

InitV0Belief ==
  /\ BeliefCall
  /\ pc = "V0Belief:allocate"
  /\ encoding = << >>
  /\ scale = << >>
  /\ offset = 0
  /\ lens = << >>
  /\ why = "ok"

\* std::vector<float> encoding(CardKnowledgeSectionLength(game), 0);
V0BeliefAllocate ==
  /\ pc = "V0Belief:allocate"
  /\ encoding' = Zeros(CardKnowledgeSectionLength(game))
  /\ scale' = Ones(CardKnowledgeSectionLength(game))
  /\ pc' = "V0Belief:encode"
  /\ UNCHANGED <<game, obs, show_own_cards, offset, lens, why>>

\* int len = EncodeV0Belief_(game, obs, 0, &encoding);
\* assert(len == (int)encoding.size());
V0BeliefEncode ==
  /\ pc = "V0Belief:encode"
  /\ LET r == EncodeV0Belief_(game, obs, 0, encoding, scale)
         checked == RequireLength(r, 0, Len(encoding))
     IN  /\ why' = checked.why
         /\ IF Ok(checked)
              THEN /\ encoding' = r.encoding
                   /\ scale' = r.scale
                   /\ lens' = Append(lens, r.offset)
                   /\ pc' = "V0Belief:extract"
              ELSE /\ pc' = IF r.why = "undefined"
                              THEN "undefined" ELSE "aborted"
                   /\ UNCHANGED <<encoding, scale, lens>>
  /\ UNCHANGED <<game, obs, show_own_cards, offset>>

V0BeliefExtract == Extract("V0Belief:extract")

NextV0Belief ==
  \/ V0BeliefAllocate
  \/ V0BeliefEncode
  \/ V0BeliefExtract

SpecV0Belief == InitV0Belief /\ [][NextV0Belief]_vars

----------------------------------------------------------------------------
\* Slot k of player p holds a card.
Occupied(p, k) == k < Len(obs.hands[p + 1].cards)
OccupiedSlots == {pk \in AllSlots(game) : Occupied(pk[1], pk[2])}

\* plausible(color, rank) for slot k of player p: 1 or 0.
Plausible(p, k, color, rank) ==
  IF /\ HasKnowledge(p, k)
     /\ KnowledgeOf(p, k).color_plausible[color + 1]
     /\ KnowledgeOf(p, k).rank_plausible[rank + 1]
    THEN 1 ELSE 0

\* The sum over the slot of plausible times remaining count.
SlotTotal(p, k) ==
  SumOver([c \in ValidCards(game) |->
             Plausible(p, k, c.color, c.rank) * Remaining(c.color, c.rank)],
          ValidCards(game))

\* The belief of slot k of player p in (color, rank) in the returned
\* vector: numerator and denominator.
BeliefIndex(p, k, color, rank) ==
  (p * game.hand_size + k) * game.num_colors * game.num_ranks
    + color * game.num_ranks + rank + 1
BeliefNum(p, k, color, rank) == encoding[BeliefIndex(p, k, color, rank)]
BeliefDen(p, k, color, rank) == scale[BeliefIndex(p, k, color, rank)]

\* The beliefs of the slot are the fractions num / den of one positive
\* denominator, lie in [0, 1] and sum to 1.
SumsToOne(p, k) ==
  LET den == BeliefDen(p, k, 0, 0)
  IN  /\ den > 0
      /\ \A c \in ValidCards(game) :
           /\ BeliefDen(p, k, c.color, c.rank) = den
           /\ BeliefNum(p, k, c.color, c.rank) >= 0
           /\ BeliefNum(p, k, c.color, c.rank) <= den
      /\ SumOver([c \in ValidCards(game) |-> BeliefNum(p, k, c.color, c.rank)],
                 ValidCards(game)) = den

\* The belief in (color, rank) is plausible times remaining over the total
\* of the slot.
IsV0Belief(p, k) ==
  \A c \in ValidCards(game) :
    BeliefNum(p, k, c.color, c.rank) * SlotTotal(p, k)
      = Plausible(p, k, c.color, c.rank) * Remaining(c.color, c.rank)
          * BeliefDen(p, k, c.color, c.rank)

ExcludedAreZero(p, k) ==
  \A c \in ValidCards(game) :
    Plausible(p, k, c.color, c.rank) = 0 => BeliefNum(p, k, c.color, c.rank) = 0

\* C16: whenever the V0 belief estimator returns, the belief of every
\* occupied slot in every (color, rank) is plausible times remaining count
\* over the sum of that product over the slot, so the slot sums to 1, every
\* entry is in [0, 1] and an excluded (color, rank) has belief 0; it never
\* returns for a slot whose sum of products is <= 0.
C16_V0Belief ==
  /\ Returned =>
       \A pk \in OccupiedSlots :
         /\ IsV0Belief(pk[1], pk[2])
         /\ SumsToOne(pk[1], pk[2])
         /\ ExcludedAreZero(pk[1], pk[2])
  /\ (\E pk \in OccupiedSlots : SlotTotal(pk[1], pk[2]) <= 0) =>
       pc \in {"V0Belief:allocate", "V0Belief:encode", "aborted"}

----------------------------------------------------------------------------
(* EncodeV1Belief_ and CanonicalObservationEncoder::EncodeV1Belief         *)

\* const int num_iters = 100; const float weight = 0.1, as the fraction
\* weight_num / weight_den.
num_iters == 100
weight_num == 1
weight_den == 10

\* The iterations that are followed.
MaxSteps == 1

RECURSIVE GCD(_, _)
GCD(a, b) == IF b = 0 THEN a ELSE GCD(b, a % b)
LCM(a, b) == (a * b) \div GCD(a, b)

RECURSIVE LCMOver(_)
LCMOver(S) ==
  IF S = {} THEN 1
  ELSE LET x == CHOOSE y \in S : TRUE IN LCM(x, LCMOver(S \ {x}))

\* The denominator d all the entries of the held cards are brought to.
V1Common(g, sc, slots) ==
  LCMOver({sc[base + i] : base \in slots, i \in 1..(g.num_colors * g.num_ranks)})

\* One iteration of the loop over step on v1_belief = enc / sc, for the
\* held cards at `slots`.  tc is total_cards, fresh is new_v1_belief and
\* blend the interpolation, as numerators over d, d and weight_den * d; the
\* entries of a slot are then divided by the total of the slot.
V1Step(g, hands, card_count, card_knowledge, enc, sc, slots, d) ==
  LET n == g.num_colors * g.num_ranks
      len == Len(enc)
      per_card_offset == (len \div g.hand_size) \div g.num_players
      num(base, i) == enc[base + i] * (d \div sc[base + i])
      tc(i) == card_count[i] * d
                 - SumOver([base \in slots |-> num(base, i)], slots)
      fresh(base, i) ==
        Max(tc(i) + num(base, i), 0) * card_knowledge[base + i]
      blend(base, i) ==
        (weight_den - weight_num) * num(base, i) + weight_num * fresh(base, i)
      total(base) == SumSeq([i \in 1..n |-> blend(base, i)], 1)
  IN  IF \E base \in slots : total(base) <= 0
        THEN Result("assert", enc, sc, 0)
        ELSE Result("ok",
               [j \in 1..len |->
                  LET base == V0SlotOf(g, hands, 0, len, per_card_offset, j - 1)
                  IN  IF base < 0 THEN enc[j] ELSE blend(base, j - base)],
               [j \in 1..len |->
                  LET base == V0SlotOf(g, hands, 0, len, per_card_offset, j - 1)
                  IN  IF base < 0 THEN sc[j] ELSE total(base)],
               0)

InitV1Belief ==
  /\ BeliefCall
  /\ pc = "V1Belief:allocate"
  /\ encoding = << >>
  /\ scale = << >>
  /\ offset = 0
  /\ lens = << >>
  /\ why = "ok"

\* std::vector<float> encoding(CardKnowledgeSectionLength(game), 0);
V1BeliefAllocate ==
  /\ pc = "V1Belief:allocate"
  /\ encoding' = Zeros(CardKnowledgeSectionLength(game))
  /\ scale' = Ones(CardKnowledgeSectionLength(game))
  /\ pc' = "V1Belief:knowledge"
  /\ UNCHANGED <<game, obs, show_own_cards, offset, lens, why>>

\* std::vector<float> card_knowledge(CardKnowledgeSectionLength(game), 0);
\* int len = EncodeCardKnowledge(game, obs, 0, &card_knowledge);
\* assert(len == card_knowledge.size());
\* From here to the end of the loop `lens` holds card_knowledge.
V1BeliefKnowledge ==
  /\ pc = "V1Belief:knowledge"
  /\ \E r \in {RequireLength(
                 EncodeCardKnowledge(game, obs, 0,
                                     Zeros(CardKnowledgeSectionLength(game)),
                                     Ones(CardKnowledgeSectionLength(game))),
                 0, CardKnowledgeSectionLength(game))} :
       /\ why' = r.why
       /\ IF Ok(r)
            THEN lens' = r.encoding /\ pc' = "V1Belief:v0"
            ELSE UNCHANGED lens
                   /\ pc' = IF r.why = "undefined"
                              THEN "undefined" ELSE "aborted"
  /\ UNCHANGED <<game, obs, show_own_cards, encoding, scale, offset>>

\* std::vector<float> v0_belief(card_knowledge);
\* len = EncodeV0Belief_(game, obs, 0, &v0_belief, card_count);
\* assert(len == card_knowledge.size()); the assert on per_card_offset;
\* std::vector<float> v1_belief(v0_belief);
\* From here to the end of the loop `encoding` and `scale` hold v1_belief
\* and `offset` holds step.
V1BeliefV0 ==
  /\ pc = "V1Belief:v0"
  /\ \E r \in {Require(
                 RequireLength(EncodeV0Belief_(game, obs, 0, lens, Ones(Len(lens))),
                               0, Len(lens)),
                 (Len(lens) \div game.hand_size) \div game.num_players
                   = game.num_colors * game.num_ranks
                       + game.num_colors + game.num_ranks)} :
       /\ why' = r.why
       /\ IF Ok(r)
            THEN /\ encoding' = r.encoding
                 /\ scale' = r.scale
                 /\ pc' = "V1Belief:step"
            ELSE /\ pc' = IF r.why = "undefined"
                            THEN "undefined" ELSE "aborted"
                 /\ UNCHANGED <<encoding, scale>>
  /\ offset' = 0
  /\ UNCHANGED <<game, obs, show_own_cards, lens>>

\* for (int step = 0; step < num_iters; ++step): one iteration.
V1BeliefStep ==
  /\ pc = "V1Belief:step"
  /\ offset < num_iters
  /\ offset < MaxSteps
  /\ \E slots \in {V0Slots(game, obs.hands, 0, Len(encoding),
                           (Len(encoding) \div game.hand_size)
                             \div game.num_players)} :
     \E d \in {V1Common(game, scale, slots)} :
     \E r \in {V1Step(game, obs.hands, ComputeCardCount(game, obs).card_count,
                      lens, encoding, scale, slots, d)} :
       /\ why' = r.why
       /\ IF Ok(r)
            THEN /\ encoding' = r.encoding
                 /\ scale' = r.scale
                 /\ offset' = offset + 1
                 /\ pc' = pc
            ELSE /\ pc' = "aborted"
                 /\ UNCHANGED <<encoding, scale, offset>>
  /\ UNCHANGED <<game, obs, show_own_cards, lens>>

\* The copy of v1_belief to the encoding, return v1_belief.size(), and
\* assert(len == (int)encoding.size()) of the accessor, after the
\* iterations that are followed.
V1BeliefCopy ==
  /\ pc = "V1Belief:step"
  /\ offset = num_iters \/ offset = MaxSteps
  /\ pc' = "V1Belief:extract"
  /\ UNCHANGED <<game, obs, show_own_cards, encoding, scale, offset, lens, why>>

V1BeliefExtract == Extract("V1Belief:extract")

NextV1Belief ==
  \/ V1BeliefAllocate
  \/ V1BeliefKnowledge
  \/ V1BeliefV0
  \/ V1BeliefStep
  \/ V1BeliefCopy
  \/ V1BeliefExtract

SpecV1Belief == InitV1Belief /\ [][NextV1Belief]_vars

----------------------------------------------------------------------------
\* The belief of slot k of player p in (color, rank) inside v1_belief,
\* which has the layout of the Card-Knowledge encoding.
V1Index(p, k, color, rank) ==
  SectorStart(0, p, k) + color * game.num_ranks + rank + 1

\* The beliefs of the slot in v1_belief are non-negative fractions of one
\* positive denominator and sum to 1.
V1SumsToOne(p, k) ==
  LET den == scale[V1Index(p, k, 0, 0)]
  IN  /\ den > 0
      /\ \A c \in ValidCards(game) :
           /\ scale[V1Index(p, k, c.color, c.rank)] = den
           /\ encoding[V1Index(p, k, c.color, c.rank)] >= 0
      /\ SumOver([c \in ValidCards(game) |->
                    encoding[V1Index(p, k, c.color, c.rank)]],
                 ValidCards(game)) = den

V1ExcludedAreZero(p, k) ==
  \A c \in ValidCards(game) :
    Plausible(p, k, c.color, c.rank) = 0 =>
      encoding[V1Index(p, k, c.color, c.rank)] = 0

\* C17: after every iteration of the V1 belief estimator, and so in its
\* output, the entries of every occupied slot are non-negative and sum to
\* 1, and a (color, rank) the plausibility grid of the slot excludes has
\* belief 0; there is no output for a slot whose blended total is <= 0.
C17_V1Belief ==
  /\ (pc = "V1Belief:step" /\ offset >= 1) =>
       \A pk \in OccupiedSlots :
         V1SumsToOne(pk[1], pk[2]) /\ V1ExcludedAreZero(pk[1], pk[2])
  /\ Returned =>
       \A pk \in OccupiedSlots :
         SumsToOne(pk[1], pk[2]) /\ ExcludedAreZero(pk[1], pk[2])

----------------------------------------------------------------------------
(* Two invocations of CanonicalObservationEncoder::Encode on one encoder,  *)
(* interleaved statement by statement.  game is the one GameConfig; every  *)
(* other variable holds one component per invocation.                      *)

Invocations == {1, 2}

\* The calls an invocation is made with: an observation and show_own_cards.
TwoCalls(g) ==
  {<<FreshObs(g), FALSE>>, <<DealtObs(g, FALSE, 0), FALSE>>,
   <<DealtObs(g, TRUE, 0), TRUE>>, <<DealtObs(g, FALSE, 1), FALSE>>,
   <<BusyObs(g, FALSE), FALSE>>, <<BusyObs(g, TRUE), TRUE>>}

\* The locals of invocation t: `encoding` and `offset` are automatic
\* variables of Encode, one instance per invocation.
LocalShared(t) == 1
Local(t) == t

ForInvocation(v, t, x) == [v EXCEPT ![t] = x]

\* abort() ends the process: no invocation goes on after one has aborted.
Running == \A t \in Invocations : pc[t] \notin {"aborted", "undefined"}

InitTwo ==
  /\ \E t \in ObservationTypes :
     \E a \in TwoCalls(RefGame(t)), b \in TwoCalls(RefGame(t)) :
       /\ game = RefGame(t)
       /\ obs = <<a[1], b[1]>>
       /\ show_own_cards = <<a[2], b[2]>>
  /\ pc = <<"Encode", "Encode">>
  /\ encoding = << << >>, << >> >>
  /\ scale = << << >>, << >> >>
  /\ offset = <<0, 0>>
  /\ lens = << << >>, << >> >>
  /\ why = <<"ok", "ok">>

TwoAllocate(t) ==
  /\ Running
  /\ pc[t] = "Encode"
  /\ encoding' = ForInvocation(encoding, Local(t), Zeros(FlatLength(Shape(game))))
  /\ scale' = ForInvocation(scale, Local(t), Ones(FlatLength(Shape(game))))
  /\ offset' = ForInvocation(offset, Local(t), 0)
  /\ pc' = ForInvocation(pc, t, "EncodeHands")
  /\ UNCHANGED <<game, obs, show_own_cards, lens, why>>

\* offset += <section encoder>(...), by invocation t.
TwoSection(t, r, next) ==
  /\ why' = ForInvocation(why, t, r.why)
  /\ IF Ok(r)
       THEN /\ encoding' = ForInvocation(encoding, Local(t), r.encoding)
            /\ scale' = ForInvocation(scale, Local(t), r.scale)
            /\ offset' = ForInvocation(offset, Local(t), offset[Local(t)] + r.offset)
            /\ lens' = ForInvocation(lens, t, Append(lens[t], r.offset))
            /\ pc' = ForInvocation(pc, t, next)
       ELSE /\ pc' = ForInvocation(pc, t, IF r.why = "undefined"
                                  THEN "undefined" ELSE "aborted")
            /\ UNCHANGED <<encoding, scale, offset, lens>>
  /\ UNCHANGED <<game, obs, show_own_cards>>

TwoHands(t) ==
  /\ Running
  /\ pc[t] = "EncodeHands"
  /\ \E r \in {EncodeHands(game, obs[t], offset[Local(t)], encoding[Local(t)],
                           scale[Local(t)], show_own_cards[t])} :
       TwoSection(t, r, "EncodeBoard")

TwoBoard(t) ==
  /\ Running
  /\ pc[t] = "EncodeBoard"
  /\ \E r \in {EncodeBoard(game, obs[t], offset[Local(t)], encoding[Local(t)],
                           scale[Local(t)])} :
       TwoSection(t, r, "EncodeDiscards")

TwoDiscards(t) ==
  /\ Running
  /\ pc[t] = "EncodeDiscards"
  /\ \E r \in {EncodeDiscards(game, obs[t], offset[Local(t)],
                              encoding[Local(t)], scale[Local(t)])} :
       TwoSection(t, r, "EncodeLastAction")

TwoLastAction(t) ==
  /\ Running
  /\ pc[t] = "EncodeLastAction"
  /\ \E r \in {EncodeLastAction_(game, obs[t], offset[Local(t)],
                                 encoding[Local(t)], scale[Local(t)])} :
       TwoSection(t, r, IF game.observation_type # kMinimal
                          THEN "EncodeV0Belief" ELSE "return")

TwoV0Belief(t) ==
  /\ Running
  /\ pc[t] = "EncodeV0Belief"
  /\ \E r \in {EncodeV0Belief_(game, obs[t], offset[Local(t)],
                               encoding[Local(t)], scale[Local(t)])} :
       TwoSection(t, r, "return")

\* assert(offset == encoding.size()); return encoding;
TwoReturn(t) ==
  /\ Running
  /\ pc[t] = "return"
  /\ IF offset[Local(t)] = Len(encoding[Local(t)])
       THEN pc' = ForInvocation(pc, t, "returned") /\ why' = ForInvocation(why, t, "ok")
       ELSE pc' = ForInvocation(pc, t, "aborted") /\ why' = ForInvocation(why, t, "length")
  /\ UNCHANGED <<game, obs, show_own_cards, encoding, scale, offset, lens>>

NextTwo ==
  \E t \in Invocations :
    \/ TwoAllocate(t)
    \/ TwoHands(t)
    \/ TwoBoard(t)
    \/ TwoDiscards(t)
    \/ TwoLastAction(t)
    \/ TwoV0Belief(t)
    \/ TwoReturn(t)

SpecTwo == InitTwo /\ [][NextTwo]_vars

----------------------------------------------------------------------------
\* A section encoder applied to the result r of the sections before it.
After(r, s) ==
  IF Ok(r) THEN Result(s.why, s.encoding, s.scale, r.offset + s.offset) ELSE r

\* What Encode computes for one observation when it runs alone: the
\* section encoders one after the other on a fresh buffer.
EncodeAlone(g, o, show) ==
  LET n == FlatLength(Shape(g))
      h == EncodeHands(g, o, 0, Zeros(n), Ones(n), show)
      b == After(h, EncodeBoard(g, o, h.offset, h.encoding, h.scale))
      d == After(b, EncodeDiscards(g, o, b.offset, b.encoding, b.scale))
      l == After(d, EncodeLastAction_(g, o, d.offset, d.encoding, d.scale))
      v == IF g.observation_type # kMinimal
             THEN After(l, EncodeV0Belief_(g, o, l.offset, l.encoding, l.scale))
             ELSE l
  IN  IF Ok(v) /\ v.offset # n THEN Result("length", v.encoding, v.scale, v.offset)
      ELSE v

ReturnsAsAlone(t) ==
  pc[t] = "returned" =>
    \E r \in {EncodeAlone(game, obs[t], show_own_cards[t])} :
      /\ Ok(r)
      /\ encoding[t] = r.encoding
      /\ scale[t] = r.scale

InputsUnchanged == game' = game /\ obs' = obs

----------------------------------------------------------------------------
(* EncodeOwnHand_ and CanonicalObservationEncoder::EncodeOwnHand           *)

\* int bits_per_card = 3;
own_bits_per_card == 3

\* int len = 5 * 3;
own_len == 5 * 3

\* The cards of the largest hand of the observer.
OwnHandSize == 6

\* The body of the loop over the cards of the observer: the asserts, and
\* one entry set by the rank of the card against the firework of its color.
OwnHandCard(g, o, r, card) ==
  LET checked == Require(Require(Require(r, card.color < g.num_colors),
                                 card.rank < g.num_ranks),
                         IsValid(card))
  IN  IF ~Ok(checked) THEN checked
      ELSE Advance(IF card.rank = o.fireworks[card.color + 1]
                     THEN SetRel(checked, 0)
                     ELSE IF card.rank < o.fireworks[card.color + 1]
                       THEN SetRel(checked, 1)
                       ELSE SetRel(checked, 2),
                   own_bits_per_card)

RECURSIVE OwnHandCards(_, _, _, _)
OwnHandCards(g, o, r, k) ==
  IF ~Ok(r) \/ k > Len(o.hands[1].cards) THEN r
  ELSE OwnHandCards(g, o, OwnHandCard(g, o, r, o.hands[1].cards[k]), k + 1)

\* Returns the cursor, not the number of entries written.
EncodeOwnHand_(g, o, start_offset, enc, sc) ==
  OwnHandCards(g, o, Result("ok", enc, sc, start_offset), 1)

OwnGame == Game(MaxColors, MaxRanks, MaxPlayers, OwnHandSize, kCardKnowledge)

\* The hands the observer is seen with: every hand of up to two cards,
\* valid or not, and longer hands of two cards in turn.
OwnCards(g) ==
  LET cards == ValidCards(g) \cup {InvalidCard}
  IN  {<< >>} \cup {<<a>> : a \in cards}
      \cup {[k \in 1..n |-> IF k % 2 = 1 THEN a ELSE b] :
              a \in cards, b \in cards, n \in 2..g.hand_size}

InitOwnHand ==
  /\ \E cards \in OwnCards(OwnGame), fw \in [1..MaxColors -> 0..MaxRanks] :
       CallOn(OwnGame,
              Observation(OwnGame,
                [q \in 1..MaxPlayers |->
                   IF q = 1 THEN Hand(OwnGame, cards, Len(cards))
                   ELSE FullHands(OwnGame, FALSE)[q]],
                << >>, fw, MaxInformationTokens, MaxLifeTokens, << >>, 0),
              TRUE)
  /\ pc = "OwnHand:allocate"
  /\ encoding = << >>
  /\ scale = << >>
  /\ offset = 0
  /\ lens = << >>
  /\ why = "ok"

\* int len = 5 * 3; std::vector<float> encoding(len, 0);
OwnHandAllocate ==
  /\ pc = "OwnHand:allocate"
  /\ encoding' = Zeros(own_len)
  /\ scale' = Ones(own_len)
  /\ pc' = "OwnHand:encode"
  /\ UNCHANGED <<game, obs, show_own_cards, offset, lens, why>>

\* int offset = EncodeOwnHand_(*parent_game_, obs, 0, &encoding);
\* assert(offset <= len); return encoding;
OwnHandEncode ==
  /\ pc = "OwnHand:encode"
  /\ \E r \in {EncodeOwnHand_(game, obs, 0, encoding, scale)} :
     \E checked \in {Require(r, r.offset <= own_len)} :
       /\ why' = checked.why
       /\ IF Ok(checked)
            THEN /\ encoding' = r.encoding
                 /\ scale' = r.scale
                 /\ offset' = r.offset
                 /\ pc' = "returned"
            ELSE /\ pc' = IF r.why = "undefined"
                            THEN "undefined" ELSE "aborted"
                 /\ UNCHANGED <<encoding, scale, offset>>
  /\ UNCHANGED <<game, obs, show_own_cards, lens>>

NextOwnHand ==
  \/ OwnHandAllocate
  \/ OwnHandEncode

SpecOwnHand == InitOwnHand /\ [][NextOwnHand]_vars

----------------------------------------------------------------------------
\* The three entries of slot k (from 0) of the own-hand summary.
OwnField(k) == Field(k * own_bits_per_card, own_bits_per_card)

\* The entry the card in slot k has: 0 at, 1 below, 2 above the firework
\* of its color.
OwnEntry(k) ==
  LET card == obs.hands[1].cards[k + 1]
      firework == obs.fireworks[card.color + 1]
  IN  IF card.rank = firework THEN 0
      ELSE IF card.rank < firework THEN 1 ELSE 2

IsOwnHandSummary ==
  /\ \A k \in 0..(Len(obs.hands[1].cards) - 1) :
       /\ k * own_bits_per_card + own_bits_per_card <= Len(encoding)
       /\ IsValid(obs.hands[1].cards[k + 1])
       /\ OneHot(OwnField(k), OwnEntry(k))
  /\ \A k \in 0..(Len(encoding) \div own_bits_per_card - 1) :
       k >= Len(obs.hands[1].cards) => AllZero(OwnField(k))

\* C19: for every observation the own-hand accessor returns, and for each
\* card the observer holds the returned vector has exactly one set entry
\* among the three of the card, chosen by the rank of the card being at,
\* below or above the firework of its color; the entries of the slots
\* with no card are all zero.
C19_OwnHandSummary ==
  /\ pc \notin {"OwnHand:allocate", "OwnHand:encode"} => Returned
  /\ Returned => IsOwnHandSummary

----------------------------------------------------------------------------
\* The observation passes the check at the end of ComputeCardCount: the
\* remaining counts sum to deck_size + the cards in the hands.
CountsConsistent == ComputeCardCount(game, obs).why = "ok"

\* C20: every observation that passes the card-count check, also one taken
\* while the hands are being dealt, has deck_size <= max_deck_size -
\* players * hand_size, so all the entries the deck thermometer of
\* EncodeBoard sets lie inside the deck field.
C20_DeckFitsField ==
  CountsConsistent =>
    /\ obs.deck_size <= DeckWidth(game)
    /\ BoardWritten => Cardinality(SetEntries(DeckField)) = obs.deck_size

----------------------------------------------------------------------------
(* CanonicalObservationEncoder::Encode on observations with knowledge      *)

\* A call of Encode on an observation with knowledge: every knowledge
\* about all the held cards before the deal, after one card, after one hand
\* and after the deal, and every knowledge about the observer's first slot
\* of full hands on every board.
KnownCall ==
  LET g == RefGame(kCardKnowledge)
  IN  \/ \E d \in {0, 1, g.hand_size, g.num_players * g.hand_size},
            kn \in CardKnowledges(g) :
           CallOn(g, Observation(g, KnownHands(g, DealtOccupancy(g, d),
                                               AllSlots(g), kn),
                                 << >>, NoFireworks(g), MaxInformationTokens,
                                 MaxLifeTokens, << >>, 0),
                  FALSE)
      \/ \E kn \in CardKnowledges(g), b \in Boards(g) :
           CallOn(g, Observation(g, KnownHands(g, FullOccupancy(g),
                                               {<< 0, 0 >>}, kn),
                                 b.pile, b.fireworks, MaxInformationTokens,
                                 MaxLifeTokens, << >>, 0),
                  FALSE)

InitKnown ==
  /\ KnownCall
  /\ pc = "Encode"
  /\ encoding = << >>
  /\ scale = << >>
  /\ offset = 0
  /\ lens = << >>
  /\ why = "ok"

SpecKnown == InitKnown /\ [][Next]_vars

----------------------------------------------------------------------------
\* The last section of the output of Encode and the output of the
\* Card-Knowledge encoder for the same observation.

\* Entry j (from 1) of a Card-Knowledge encoding lies in the colors x ranks
\* grid of a slot that holds a card.
InHeldGrid(j) ==
  LET sector == (j - 1) \div SectorWidth
      p == sector \div game.hand_size
      k == sector % game.hand_size
  IN  /\ Occupied(p, k)
      /\ (j - 1) % SectorWidth < game.num_colors * game.num_ranks

\* Entry j (from 1) of the last section: numerator and denominator.
LastNum(j) == encoding[StartOfCardKnowledge(game) + j]
LastDen(j) == scale[StartOfCardKnowledge(game) + j]

\* The grid entries of the held card in slot k of player p are the entries
\* of the Card-Knowledge encoding ck times the remaining counts, over the
\* total of the slot.
HeldGridIsV0Belief(ck, p, k) ==
  \A c \in ValidCards(game) :
    LET j == SectorStart(0, p, k) + c.color * game.num_ranks + c.rank + 1
    IN  /\ LastDen(j) > 0
        /\ LastNum(j) * SlotTotal(p, k)
             = ck[j] * Remaining(c.color, c.rank) * LastDen(j)

\* C21: in non-minimal mode the last section of the vector Encode returns
\* is the V0 belief encoding: it differs from the output of the
\* Card-Knowledge encoder for the same observation only in the colors x
\* ranks grid of the slots that hold a card; every hinted-color entry,
\* every hinted-rank entry and every entry of a slot with no card is the
\* entry of the Card-Knowledge output.
C21_LastSectionIsV0Belief ==
  (Returned /\ game.observation_type # kMinimal) =>
    \E ck \in {EncodeCardKnowledge(game, obs, 0,
                                   Zeros(CardKnowledgeSectionLength(game)),
                                   Ones(CardKnowledgeSectionLength(game)))} :
      /\ Ok(ck)
      /\ Len(encoding)
           = StartOfCardKnowledge(game) + CardKnowledgeSectionLength(game)
      /\ \A j \in 1..CardKnowledgeSectionLength(game) :
           ~InHeldGrid(j) =>
             LastNum(j) = ck.encoding[j] /\ LastDen(j) = 1
      /\ \A pk \in OccupiedSlots :
           HeldGridIsV0Belief(ck.encoding, pk[1], pk[2])

\* Encode has returned in non-minimal mode for hands with a held card
\* whose belief is a proper fraction, a set hinted-color entry and a slot
\* with no card.
C21_Witness ==
  /\ Returned
  /\ game.observation_type # kMinimal
  /\ \E j \in 1..CardKnowledgeSectionLength(game) :
       InHeldGrid(j) /\ LastNum(j) > 0 /\ LastNum(j) < LastDen(j)
  /\ \E pk \in OccupiedSlots :
       \E i \in 1..game.num_colors : HintedColorField(StartOfCardKnowledge(game), pk[1], pk[2])[i] = 1
  /\ \E pk \in AllSlots(game) : ~Occupied(pk[1], pk[2])

====
